---------------------------- MODULE Spec2Model ----------------------------
(***************************************************************************)
(* A model of the Graphia plugins that carry algorithmic state:            *)
(*   - morphing/spectral_interpolation : FFT based gap filling             *)
(*   - morphing/resample               : resampling / decimation           *)
(* The host document (Graph.FunctionList, Graph.Selected), the modal       *)
(* dialogs of the two plugins and the handlers that run when the dialog    *)
(* is accepted are modelled as a state machine.                            *)
(*                                                                         *)
(* Numbers.  Python floats are modelled by exact rationals <<n, d>> in     *)
(* lowest terms with d > 0 (floating point rounding is not modelled).      *)
(* The text of an edit box is the rational it parses to, or BadText when   *)
(* float() raises on it.                                                   *)
(*                                                                         *)
(* Indices.  Python indices are kept 0-based (idx_a, idx_b, slices);       *)
(* TLA+ sequences are 1-based, so element i of an array a is a[i + 1].     *)
(***************************************************************************)
EXTENDS Integers, Sequences, FiniteSets, TLC

(***************************************************************************)
(* Bounds of the model (not program constants).                            *)
(***************************************************************************)
\* spectral_interpolation is invoked only while the function list is shorter
\* than this
MaxFuncs == 4
\* resample_series is invoked only while the function list is shorter than this
MaxRsFuncs == 4

(***************************************************************************)
(* Program constants.                                                      *)
(***************************************************************************)
\* spectral_interpolation: "The series must have at least 10 points."
MinGapPoints == 10
\* resample_series: "The series must have at least 2 points."
MinResamplePoints == 2

(***************************************************************************)
(* Exact rational arithmetic standing for Python float arithmetic.         *)
(***************************************************************************)
Abs(a) == IF a < 0 THEN -a ELSE a

RECURSIVE GCD(_, _)
GCD(a, b) == IF b = 0 THEN a ELSE GCD(b, a % b)

Norm(n, d) ==
    LET s == IF d < 0 THEN -1 ELSE 1
        g == GCD(Abs(n), Abs(d))
    IN  IF n = 0 THEN <<0, 1>> ELSE <<(s * n) \div g, (s * d) \div g>>

R(i) == <<i, 1>>
Frac(n, d) == Norm(n, d)

\* the common factor of the denominators is taken out first, so that the
\* products stay small
RAdd(a, b) ==
    LET g == GCD(a[2], b[2])
    IN  Norm(a[1] * (b[2] \div g) + b[1] * (a[2] \div g), (a[2] \div g) * b[2])
RNeg(a) == <<-a[1], a[2]>>
RSub(a, b) == RAdd(a, RNeg(b))
\* cross-cancel first, so that the products stay small
RMul(a, b) ==
    LET p == Norm(a[1], b[2])
        q == Norm(b[1], a[2])
    IN  Norm(p[1] * q[1], p[2] * q[2])
RDiv(a, b) == RMul(a, Norm(b[2], b[1]))
RLt(a, b) ==
    LET g == GCD(a[2], b[2])
    IN  a[1] * (b[2] \div g) < b[1] * (a[2] \div g)
RLe(a, b) ==
    LET g == GCD(a[2], b[2])
    IN  a[1] * (b[2] \div g) <= b[1] * (a[2] \div g)
RGt(a, b) == RLt(b, a)
RGe(a, b) == RLe(b, a)
RMax(a, b) == IF RGe(a, b) THEN a ELSE b
RMin(a, b) == IF RLe(a, b) THEN a ELSE b

\* floor and ceiling of a rational (\div is floor division)
Floor(a) == a[1] \div a[2]
Ceil(a) == -((-a[1]) \div a[2])
\* Python int(): truncation toward zero
PyInt(a) == IF a[1] >= 0 THEN Floor(a) ELSE Ceil(a)
\* Python round() of a float to an int: ties go to the even integer
PyRound(a) ==
    LET f == Floor(a)
        r == RSub(a, R(f))
        twice == RMul(r, R(2))
    IN  IF RLt(twice, R(1)) THEN f
        ELSE IF RGt(twice, R(1)) THEN f + 1
        ELSE IF f % 2 = 0 THEN f ELSE f + 1

RECURSIVE Pow10(_)
Pow10(k) == IF k = 0 THEN 1 ELSE 10 * Pow10(k - 1)

\* the decimal exponent e of a > 0: 10^e <= a < 10^(e+1)
RECURSIVE Exp10(_, _)
Exp10(a, e) ==
    IF RLt(a, R(1)) THEN Exp10(RMul(a, R(10)), e - 1)
    ELSE IF RGe(a, R(10)) THEN Exp10(RDiv(a, R(10)), e + 1)
    ELSE e

\* f"{v:.6g}" followed by float(): v rounded to 6 significant digits
Format6g(v) ==
    IF v[1] = 0 THEN R(0)
    ELSE LET a == <<Abs(v[1]), v[2]>>
             e == Exp10(a, 0)
             k == 5 - e
             scaled == IF k >= 0 THEN RMul(a, R(Pow10(k)))
                       ELSE RDiv(a, R(Pow10(-k)))
             m == PyRound(scaled)
             r == IF k >= 0 THEN Frac(m, Pow10(k)) ELSE R(m * Pow10(-k))
         IN  IF v[1] < 0 THEN RNeg(r) ELSE r

\* an edit box text on which float() raises ValueError
BadText == <<0, 0>>
IsNumber(t) == t[2] > 0

(***************************************************************************)
(* Python / numpy sequence helpers.                                        *)
(***************************************************************************)
\* a[i] for a 0-based index i >= 0
At(a, i) == a[i + 1]

\* the element of a one-element set: in Only({e : v \in {d}}) the value of d
\* is computed once and e refers to it as v
Only(S) == CHOOSE v \in S : TRUE

\* a[lo:hi] with Python's slice rules: negative bounds count from the end,
\* bounds are clipped to [0, len]
SliceBound(k, n) == IF k < 0 THEN (IF k + n < 0 THEN 0 ELSE k + n)
                    ELSE (IF k > n THEN n ELSE k)
PySlice(a, lo, hi) ==
    LET n == Len(a)
        l == SliceBound(lo, n)
        h == SliceBound(hi, n)
    IN  IF h <= l THEN <<>> ELSE [i \in 1..(h - l) |-> a[l + i]]

\* a[::q]: every q-th element starting at index 0
StrideOffset(a, q) ==
    LET m == Len(a) \div q
    IN  [i \in 1..m |-> a[i * q]]

Stride(a, q) ==
    LET m == (Len(a) + q - 1) \div q
    IN  [i \in 1..m |-> a[(i - 1) * q + 1]]

RECURSIVE SumSeq(_)
SumSeq(s) == IF s = <<>> THEN R(0) ELSE RAdd(Head(s), SumSeq(Tail(s)))

\* np.linspace(a, b, num), num >= 2
Linspace(a, b, num) ==
    [i \in 1..num |-> RAdd(a, RMul(RSub(b, a), Frac(i - 1, num - 1)))]

\* np.searchsorted(x, v) (side='left'): numpy's binary search
RECURSIVE Bisect(_, _, _, _)
Bisect(x, v, lo, hi) ==
    IF lo >= hi THEN lo
    ELSE LET mid == lo + ((hi - lo) \div 2)
         IN  IF RLt(At(x, mid), v) THEN Bisect(x, v, mid + 1, hi)
             ELSE Bisect(x, v, lo, mid)

BisectRight(x, v) == Cardinality({i \in 1..Len(x) : RLe(x[i], v)})
SearchSorted(x, v) == Bisect(x, v, 0, Len(x))


(***************************************************************************)
(* The host document: Graph.FunctionList holds point series, each a list   *)
(* of Point(x, y); Graph.Selected is an index into it, 0 standing for None.*)
(***************************************************************************)
VARIABLES
    FunctionList,   \* Graph.FunctionList: sequence of series records
    Selected,       \* Graph.Selected: 0 (None) or an index of FunctionList
    Form,           \* the modal dialog that is open: "none", "gap", "resample"
    gapDlg,         \* controls of the Spectral Interpolation form
    rsDlg,          \* controls of the Resample form
    shown,          \* the error of the last message box shown by show_error,
                    \* without the title of the plugin ("" if none)
    run,            \* locals of the last accepted handler run, as it left them
    ai,             \* AIFunctionGenerator: module globals and dialog controls
    pm              \* PluginManager: plugin files on disk and the tree items

vars == <<FunctionList, Selected, Form, gapDlg, rsDlg, shown, run, ai, pm>>

\* Python's None where a key or a generated definition is expected
PyNone == "<None>"

\* AIFunctionGenerator before generate_function_dialog was ever invoked:
\* the module globals of lines 28-52 and the controls of a form not yet built
NoAi ==
    [HAS_OPENAI |-> TRUE,
     OPENAI_API_KEY |-> "",
     session_api_key |-> PyNone,
     env_key_invalid |-> FALSE,
     memo_prompt |-> "",
     result_data |-> PyNone,
     btn_accept_Enabled |-> FALSE,
     btn_generate_Enabled |-> TRUE,
     auth_failed |-> FALSE,        \* ghost: an authentication error happened
     entered_after |-> FALSE,      \* ghost: the session key was typed after it
     generations |-> 0]            \* ghost: successful generations so far

\* PluginManager before ShowPluginManager was ever invoked
NoPm ==
    [files |-> {},
     node_data |-> <<>>,
     Selected |-> 0,
     changes_made |-> FALSE,
     BtnToggle_Enabled |-> FALSE,
     LblPath |-> <<>>]

Point(x, y) == [x |-> x, y |-> y]

\* common.get_series_data_np: the x and the y arrays of a series
SeriesX(s) == [i \in 1..Len(s.Points) |-> s.Points[i].x]
SeriesY(s) == [i \in 1..Len(s.Points) |-> s.Points[i].y]

\* [Point(float(x), float(y)) for x, y in zip(xs, ys)]: zip stops at the shorter
ZipPoints(xs, ys) ==
    LET m == IF Len(xs) < Len(ys) THEN Len(xs) ELSE Len(ys)
    IN  [i \in 1..m |-> Point(xs[i], ys[i])]

\* float(np.mean(np.diff(x))): the sum of the differences telescopes
MeanDiff(x) == RDiv(RSub(x[Len(x)], x[1]), R(Len(x) - 1))

\* float(np.min(x)) and float(np.max(x)) of a non-empty array
SeqMin(s) == s[CHOOSE i \in 1..Len(s) : \A j \in 1..Len(s) : RLe(s[i], s[j])]
SeqMax(s) == s[CHOOSE i \in 1..Len(s) : \A j \in 1..Len(s) : RGe(s[i], s[j])]

(***************************************************************************)
(* spectral_interpolation: the computation run when the form is accepted.  *)
(***************************************************************************)
\* INTERP_MODES, by ItemIndex
ModeAverage == 0
ModePre == 1
ModePost == 2
ModeWeighted == 3

\* scipy.fftpack.fft and ifft are linear and inverse to each other, so
\* real(ifft(a*fft(u) + b*fft(v))) = a*u + b*v.  A spectrum is carried by the
\* sequence it is the transform of; combinations of spectra are taken
\* coefficient-wise on it.
Fft(segment) == [spectrum |-> segment]
Ifft(f) == f.spectrum
SpecAdd(f, g) ==
    [spectrum |-> [i \in 1..Len(f.spectrum) |-> RAdd(f.spectrum[i], g.spectrum[i])]]
SpecScale(c, f) ==
    [spectrum |-> [i \in 1..Len(f.spectrum) |-> RMul(c, f.spectrum[i])]]

\* scipy.signal.detrend (type='linear'): subtract the least-squares line
Detrend(v) ==
    LET g == Len(v)
        Sx == (g * (g - 1)) \div 2
        Sxx == ((g - 1) * g * (2 * g - 1)) \div 6
        Sy == SumSeq(v)
        Sxy == SumSeq([i \in 1..g |-> RMul(R(i - 1), v[i])])
        denom == g * Sxx - Sx * Sx
        slope == RDiv(RSub(RMul(R(g), Sxy), RMul(R(Sx), Sy)), R(denom))
        icept == RDiv(RSub(Sy, RMul(slope, R(Sx))), R(g))
    IN  IF g < 2 THEN [i \in 1..g |-> R(0)]
        ELSE [i \in 1..g |-> RSub(v[i], RAdd(icept, RMul(slope, R(i - 1))))]

\* lines 348-368: the mode that is used, given what the user asked for and
\* which sides of the gap hold at least gap_size points
ResolveModeNoFallback(mode_idx, has_pre, has_post) ==
    IF (mode_idx = ModeAverage \/ mode_idx = ModeWeighted) /\ ~has_pre /\ ~has_post
    THEN [err |-> "Insufficient data on both sides of the gap", mode_idx |-> mode_idx]
    ELSE IF mode_idx = ModePre /\ ~has_pre
    THEN [err |-> "Insufficient data before the gap", mode_idx |-> mode_idx]
    ELSE IF mode_idx = ModePost /\ ~has_post
    THEN [err |-> "Insufficient data after the gap", mode_idx |-> mode_idx]
    ELSE [err |-> "", mode_idx |-> mode_idx]

ResolveModeUnchecked(mode_idx, has_pre, has_post) ==
    IF mode_idx = ModePre /\ ~has_pre
    THEN [err |-> "Insufficient data before the gap", mode_idx |-> mode_idx]
    ELSE IF mode_idx = ModePost /\ ~has_post
    THEN [err |-> "Insufficient data after the gap", mode_idx |-> mode_idx]
    ELSE IF mode_idx \in {ModeAverage, ModeWeighted} /\ ~has_pre
    THEN [err |-> "", mode_idx |-> ModePost]
    ELSE IF mode_idx \in {ModeAverage, ModeWeighted} /\ ~has_post
    THEN [err |-> "", mode_idx |-> ModePre]
    ELSE [err |-> "", mode_idx |-> mode_idx]

ResolveModeSwapped(mode_idx, has_pre, has_post) ==
    IF mode_idx \in {ModeAverage, ModeWeighted} /\ ~has_pre /\ ~has_post
    THEN [err |-> "Insufficient data on both sides of the gap", mode_idx |-> mode_idx]
    ELSE IF mode_idx \in {ModeAverage, ModeWeighted} /\ ~has_pre
    THEN [err |-> "", mode_idx |-> ModePre]
    ELSE IF mode_idx \in {ModeAverage, ModeWeighted} /\ ~has_post
    THEN [err |-> "", mode_idx |-> ModePost]
    ELSE IF mode_idx = ModePre /\ ~has_pre
    THEN [err |-> "Insufficient data before the gap", mode_idx |-> mode_idx]
    ELSE IF mode_idx = ModePost /\ ~has_post
    THEN [err |-> "Insufficient data after the gap", mode_idx |-> mode_idx]
    ELSE [err |-> "", mode_idx |-> mode_idx]

ResolveModeSingleFallback(mode_idx, has_pre, has_post) ==
    IF ~has_pre /\ ~has_post
    THEN [err |-> (IF mode_idx = ModePre THEN "Insufficient data before the gap"
                   ELSE IF mode_idx = ModePost THEN "Insufficient data after the gap"
                   ELSE "Insufficient data on both sides of the gap"),
          mode_idx |-> mode_idx]
    ELSE IF ~has_pre THEN [err |-> "", mode_idx |-> ModePost]
    ELSE IF ~has_post THEN [err |-> "", mode_idx |-> ModePre]
    ELSE [err |-> "", mode_idx |-> mode_idx]

ResolveMode(mode_idx, has_pre, has_post) ==
    IF mode_idx = ModeAverage THEN
        IF ~has_pre /\ ~has_post
        THEN [err |-> "Insufficient data on both sides of the gap", mode_idx |-> mode_idx]
        ELSE IF ~has_pre THEN [err |-> "", mode_idx |-> ModePost]
        ELSE IF ~has_post THEN [err |-> "", mode_idx |-> ModePre]
        ELSE [err |-> "", mode_idx |-> mode_idx]
    ELSE IF mode_idx = ModePre THEN
        IF ~has_pre
        THEN [err |-> "Insufficient data before the gap", mode_idx |-> mode_idx]
        ELSE [err |-> "", mode_idx |-> mode_idx]
    ELSE IF mode_idx = ModePost THEN
        IF ~has_post
        THEN [err |-> "Insufficient data after the gap", mode_idx |-> mode_idx]
        ELSE [err |-> "", mode_idx |-> mode_idx]
    ELSE IF mode_idx = ModeWeighted THEN
        IF ~has_pre /\ ~has_post
        THEN [err |-> "Insufficient data on both sides of the gap", mode_idx |-> mode_idx]
        ELSE IF ~has_pre THEN [err |-> "", mode_idx |-> ModePost]
        ELSE IF ~has_post THEN [err |-> "", mode_idx |-> ModePre]
        ELSE [err |-> "", mode_idx |-> mode_idx]
    ELSE [err |-> "", mode_idx |-> mode_idx]

\* lines 329-330: the check of the range
RangeErrorStrict(xa, xb) ==
    IF RGt(xa, xb) THEN "Gap start (Xa) must be less than gap end (Xb)" ELSE ""

RangeError(xa, xb) ==
    IF RGe(xa, xb) THEN "Gap start (Xa) must be less than gap end (Xb)" ELSE ""

\* lines 337-339: the check of the gap size
GapSizeErrorOffByOne(gap_size) ==
    IF gap_size < 1 THEN "Gap must contain at least 2 points" ELSE ""

GapSizeError(gap_size) ==
    IF gap_size < 2 THEN "Gap must contain at least 2 points" ELSE ""

\* lines 370-409: the spectrum the fill is synthesized from
GapSpectrumDistanceWeighted(mode_idx, segment_pre, segment_post) ==
    IF mode_idx = ModeAverage
    THEN SpecScale(Frac(1, 2), SpecAdd(Fft(segment_pre), Fft(segment_post)))
    ELSE IF mode_idx = ModeWeighted
    THEN SpecAdd(SpecScale(Frac(3, 4), Fft(segment_pre)),
                 SpecScale(Frac(1, 4), Fft(segment_post)))
    ELSE IF mode_idx = ModePre THEN Fft(segment_pre)
    ELSE Fft(segment_post)

GapSpectrum(mode_idx, segment_pre, segment_post) ==
    IF mode_idx = ModeAverage
    THEN SpecScale(Frac(1, 2), SpecAdd(Fft(segment_pre), Fft(segment_post)))
    ELSE IF mode_idx = ModeWeighted
    THEN SpecAdd(SpecScale(Frac(1, 2), Fft(segment_pre)),
                 SpecScale(Frac(1, 2), Fft(segment_post)))
    ELSE IF mode_idx = ModePre THEN Fft(segment_pre)
    ELSE Fft(segment_post)

MethodName(mode_idx) ==
    IF mode_idx = ModeAverage THEN "avg(pre+post)"
    ELSE IF mode_idx = ModeWeighted THEN "weighted"
    ELSE IF mode_idx = ModePre THEN "pre-gap"
    ELSE "post-gap"

LineDataNoTrim(y_before_gap, y_after_gap, gap_size) ==
    Linspace(y_before_gap, y_after_gap, gap_size)

\* lines 424-425: the ramp between the boundary values, interior points only
LineData(y_before_gap, y_after_gap, gap_size) ==
    LET line_data_full == Linspace(y_before_gap, y_after_gap, gap_size + 2)
    IN  PySlice(line_data_full, 1, -1)

InterpolatedNoTaper(mixed_data, line_data, gap_size) ==
    [i \in 1..Len(mixed_data) |-> RAdd(mixed_data[i], line_data[i])]

\* lines 428-446: ramp added, then the tapered correction of both ends
Interpolated(mixed_data, line_data, gap_size) ==
    LET g == Len(mixed_data)
        first == [i \in 1..g |-> RAdd(mixed_data[i], line_data[i])]
        target_start == At(line_data, 0)
        target_end == line_data[Len(line_data)]
        start_error == RSub(target_start, At(first, 0))
        end_error == RSub(target_end, first[g])
        t == Linspace(R(0), R(1), gap_size)
    IN  [i \in 1..g |->
            RAdd(first[i],
                 RAdd(RMul(start_error, RSub(R(1), t[i])), RMul(end_error, t[i])))]

\* lines 449-450: y_result = deepcopy(y_orig); y_result[idx_a:idx_b] = interpolated
WriteGapShifted(y_orig, idx_a, idx_b, interpolated) ==
    [i \in 1..Len(y_orig) |->
        IF idx_a <= i /\ i < idx_b + 1 /\ i - idx_a + 1 <= Len(interpolated)
        THEN interpolated[i - idx_a + 1] ELSE y_orig[i]]

WriteGap(y_orig, idx_a, idx_b, interpolated) ==
    [i \in 1..Len(y_orig) |->
        IF idx_a < i /\ i <= idx_b THEN interpolated[i - idx_a] ELSE y_orig[i]]

\* line 453: the points of the new series
GapPointsFillOnly(x_orig, y_result, idx_a, idx_b) ==
    ZipPoints(PySlice(x_orig, idx_a, idx_b), PySlice(y_result, idx_a, idx_b))

GapPoints(x_orig, y_result, idx_a, idx_b) == ZipPoints(x_orig, y_result)

(***************************************************************************)
(* The locals of a handler run.  A run that raises keeps the values it had *)
(* assigned before the raise; the others stay at the values of NoRun.      *)
(***************************************************************************)
NoRun ==
    [plugin |-> "none", src |-> 0, err |-> "", published |-> FALSE,
     xa |-> BadText, xb |-> BadText, requested |-> -1, mode_idx |-> -1,
     idx_a |-> -1, idx_b |-> -1, gap_size |-> 0,
     has_pre |-> FALSE, has_post |-> FALSE,
     segment_pre |-> <<>>, segment_post |-> <<>>,
     line_data |-> <<>>, interpolated |-> <<>>, y_result |-> <<>>,
     new_points |-> <<>>, method_name |-> "",
     mode |-> -1, val |-> BadText, method_idx |-> -1, ftype_idx |-> -1,
     new_n |-> 0, new_period |-> BadText, current_period |-> BadText,
     path |-> "", q |-> 0, x_new |-> <<>>, y_len |-> 0]

\* lines 322-450 of spectral_interpolation: the body of the try block, up to
\* the points of the new series.  err = "" iff no exception was raised.
SpectralFill(x_orig, y_orig, xa_text, xb_text, cb_mode) ==
    LET n_points == Len(x_orig)
        r0 == [NoRun EXCEPT !.plugin = "gap", !.requested = cb_mode,
                            !.mode_idx = cb_mode]
    IN
    IF ~IsNumber(xa_text) \/ ~IsNumber(xb_text)
    THEN [r0 EXCEPT !.err = "could not convert string to float"]
    ELSE
    LET xa == xa_text
        xb == xb_text
        r1 == [r0 EXCEPT !.xa = xa, !.xb = xb]
    IN
    IF RangeError(xa, xb) # ""
    THEN [r1 EXCEPT !.err = RangeError(xa, xb)]
    ELSE
    LET idx_a == SearchSorted(x_orig, xa)
        idx_b == SearchSorted(x_orig, xb)
        gap_size == idx_b - idx_a
        r2 == [r1 EXCEPT !.idx_a = idx_a, !.idx_b = idx_b, !.gap_size = gap_size]
    IN
    IF GapSizeError(gap_size) # ""
    THEN [r2 EXCEPT !.err = GapSizeError(gap_size)]
    ELSE
    LET points_before == idx_a
        points_after == n_points - idx_b
        has_pre == points_before >= gap_size
        has_post == points_after >= gap_size
        res == ResolveMode(cb_mode, has_pre, has_post)
        mode_idx == res.mode_idx
        r3 == [r2 EXCEPT !.has_pre = has_pre, !.has_post = has_post,
                         !.mode_idx = mode_idx]
    IN
    IF res.err # "" THEN [r3 EXCEPT !.err = res.err]
    ELSE
    LET uses_pre == mode_idx \in {ModeAverage, ModeWeighted, ModePre}
        uses_post == mode_idx \in {ModeAverage, ModeWeighted, ModePost}
        segment_pre == IF uses_pre THEN PySlice(y_orig, idx_a - gap_size, idx_a)
                       ELSE <<>>
        segment_post == IF uses_post THEN PySlice(y_orig, idx_b, idx_b + gap_size)
                        ELSE <<>>
        r4 == [r3 EXCEPT !.segment_pre = segment_pre,
                         !.segment_post = segment_post,
                         !.method_name = MethodName(mode_idx)]
    IN
    \* fft_pre + fft_post of unequal lengths: numpy cannot broadcast them
    IF uses_pre /\ uses_post /\ Len(segment_pre) # Len(segment_post)
    THEN [r4 EXCEPT !.err = "operands could not be broadcast together"]
    ELSE
    LET fft_avg == GapSpectrum(mode_idx, segment_pre, segment_post)
        mixed_data == Detrend(Ifft(fft_avg))
        y_before_gap == IF idx_a > 0 THEN At(y_orig, idx_a - 1) ELSE At(y_orig, 0)
        y_after_gap == IF idx_b < n_points THEN At(y_orig, idx_b)
                       ELSE y_orig[n_points]
        line_data == LineData(y_before_gap, y_after_gap, gap_size)
        r5 == [r4 EXCEPT !.line_data = line_data]
    IN
    \* mixed_data + line_data of unequal lengths
    IF Len(mixed_data) # Len(line_data)
    THEN [r5 EXCEPT !.err = "operands could not be broadcast together"]
    ELSE
    LET interpolated == Interpolated(mixed_data, line_data, gap_size)
        r6 == [r5 EXCEPT !.interpolated = interpolated]
    IN
    \* y_result[idx_a:idx_b] = interpolated of another length
    IF Len(interpolated) # Len(PySlice(y_orig, idx_a, idx_b))
    THEN [r6 EXCEPT !.err = "could not broadcast input array"]
    ELSE
    LET y_result == WriteGap(y_orig, idx_a, idx_b, interpolated)
    IN  [r6 EXCEPT !.y_result = y_result,
                   !.new_points = GapPoints(x_orig, y_result, idx_a, idx_b)]

(***************************************************************************)
(* The Spectral Interpolation form.                                        *)
(***************************************************************************)
NoGapDlg ==
    [edt_xa |-> BadText, edt_xb |-> BadText, cb_mode |-> 0,
     btn_ok_Enabled |-> FALSE, lbl_gap_info |-> "", gap_est |-> 0,
     lbl_avail |-> ""]

update_gap_info_AdmitsEqual(d, x_orig) ==
    LET n_points == Len(x_orig)
        current_period == MeanDiff(x_orig)
        invalid == [d EXCEPT !.lbl_gap_info = "(invalid)", !.gap_est = 0,
                             !.lbl_avail = "", !.btn_ok_Enabled = FALSE]
    IN
    IF ~IsNumber(d.edt_xa) \/ ~IsNumber(d.edt_xb) THEN invalid
    ELSE
    LET xa == d.edt_xa
        xb == d.edt_xb
    IN
    IF RGt(xa, xb)
    THEN [d EXCEPT !.lbl_gap_info = "(Xa must be < Xb)", !.gap_est = 0,
                   !.lbl_avail = "", !.btn_ok_Enabled = FALSE]
    \* (xb - xa) / current_period raises ZeroDivisionError
    ELSE IF current_period[1] = 0 THEN invalid
    ELSE
    LET gap_size == PyInt(RDiv(RSub(xb, xa), current_period))
        idx_a == SearchSorted(x_orig, xa)
        idx_b == SearchSorted(x_orig, xb)
        points_before == idx_a
        points_after == n_points - idx_b
        has_pre == points_before >= gap_size
        has_post == points_after >= gap_size
        d1 == [d EXCEPT !.lbl_gap_info = "(~ gap_size points)", !.gap_est = gap_size]
    IN
    IF has_pre /\ has_post
    THEN [d1 EXCEPT !.lbl_avail = "pre and post", !.btn_ok_Enabled = TRUE]
    ELSE IF has_pre
    THEN [d1 EXCEPT !.lbl_avail = "post insufficient", !.cb_mode = ModePre,
                    !.btn_ok_Enabled = TRUE]
    ELSE IF has_post
    THEN [d1 EXCEPT !.lbl_avail = "pre insufficient", !.cb_mode = ModePost,
                    !.btn_ok_Enabled = TRUE]
    ELSE [d1 EXCEPT !.lbl_avail = "insufficient on both sides",
                    !.btn_ok_Enabled = FALSE]

\* lines 256-312: update_gap_info, the OnChange handler of both edit boxes
update_gap_info(d, x_orig) ==
    LET n_points == Len(x_orig)
        current_period == MeanDiff(x_orig)
        invalid == [d EXCEPT !.lbl_gap_info = "(invalid)", !.gap_est = 0,
                             !.lbl_avail = "", !.btn_ok_Enabled = FALSE]
    IN
    IF ~IsNumber(d.edt_xa) \/ ~IsNumber(d.edt_xb) THEN invalid
    ELSE
    LET xa == d.edt_xa
        xb == d.edt_xb
    IN
    IF RGe(xa, xb)
    THEN [d EXCEPT !.lbl_gap_info = "(Xa must be < Xb)", !.gap_est = 0,
                   !.lbl_avail = "", !.btn_ok_Enabled = FALSE]
    \* (xb - xa) / current_period raises ZeroDivisionError
    ELSE IF current_period[1] = 0 THEN invalid
    ELSE
    LET gap_size == PyInt(RDiv(RSub(xb, xa), current_period))
        idx_a == SearchSorted(x_orig, xa)
        idx_b == SearchSorted(x_orig, xb)
        points_before == idx_a
        points_after == n_points - idx_b
        has_pre == points_before >= gap_size
        has_post == points_after >= gap_size
        d1 == [d EXCEPT !.lbl_gap_info = "(~ gap_size points)", !.gap_est = gap_size]
    IN
    IF has_pre /\ has_post
    THEN [d1 EXCEPT !.lbl_avail = "pre and post", !.btn_ok_Enabled = TRUE]
    ELSE IF has_pre
    THEN [d1 EXCEPT !.lbl_avail = "post insufficient", !.cb_mode = ModePre,
                    !.btn_ok_Enabled = TRUE]
    ELSE IF has_post
    THEN [d1 EXCEPT !.lbl_avail = "pre insufficient", !.cb_mode = ModePost,
                    !.btn_ok_Enabled = TRUE]
    ELSE [d1 EXCEPT !.lbl_avail = "insufficient on both sides",
                    !.btn_ok_Enabled = FALSE]

\* lines 49-65: the default gap boundaries, from the view window of the host
DefaultGap(view_x_min, view_x_max, x_min, x_max) ==
    LET default_xa == RMax(view_x_min, x_min)
        default_xb == RMin(view_x_max, x_max)
        range_third == RDiv(RSub(x_max, x_min), R(3))
    IN  IF RGe(default_xa, default_xb)
        THEN <<RAdd(x_min, range_third), RSub(x_max, range_third)>>
        ELSE <<default_xa, default_xb>>

\* values of Graph.Axes.xAxis.Min / Max when the plugin is invoked
ViewWindows == {<<R(-10), R(10)>>, <<R(6), R(21)>>, <<R(40), R(50)>>}

\* texts the user types into the Xa and Xb edit boxes
GapEdits == {R(-3), R(0), R(8), R(9), R(10), R(15), R(16), R(20), R(30), BadText}

spectral_interpolationMin4 ==
    /\ Form = "none"
    /\ Len(FunctionList) < MaxFuncs
    /\ run' = NoRun
    /\ IF Selected = 0
       THEN /\ shown' = "No item selected in the function panel."
            /\ UNCHANGED <<FunctionList, Selected, Form, gapDlg, rsDlg>>
       ELSE IF Len(FunctionList[Selected].Points) < 4
       THEN /\ shown' = "The series must have at least 10 points."
            /\ UNCHANGED <<FunctionList, Selected, Form, gapDlg, rsDlg>>
       ELSE \E view \in ViewWindows :
            LET x_orig == SeriesX(FunctionList[Selected])
                dflt == DefaultGap(view[1], view[2], SeqMin(x_orig), SeqMax(x_orig))
                d0 == [NoGapDlg EXCEPT !.edt_xa = Format6g(dflt[1]),
                                       !.edt_xb = Format6g(dflt[2]),
                                       !.btn_ok_Enabled = TRUE]
            IN  /\ Form' = "gap"
                /\ gapDlg' = update_gap_info(d0, x_orig)
                /\ shown' = ""
                /\ UNCHANGED <<FunctionList, Selected, rsDlg>>
    /\ UNCHANGED <<ai, pm>>

\* lines 28-319: the plugin is invoked from the menu
spectral_interpolation ==
    /\ Form = "none"
    /\ Len(FunctionList) < MaxFuncs
    /\ run' = NoRun
    /\ IF Selected = 0
       THEN /\ shown' = "No item selected in the function panel."
            /\ UNCHANGED <<FunctionList, Selected, Form, gapDlg, rsDlg>>
       ELSE IF Len(FunctionList[Selected].Points) < MinGapPoints
       THEN /\ shown' = "The series must have at least 10 points."
            /\ UNCHANGED <<FunctionList, Selected, Form, gapDlg, rsDlg>>
       ELSE \E view \in ViewWindows :
            LET x_orig == SeriesX(FunctionList[Selected])
                dflt == DefaultGap(view[1], view[2], SeqMin(x_orig), SeqMax(x_orig))
                d0 == [NoGapDlg EXCEPT !.edt_xa = Format6g(dflt[1]),
                                       !.edt_xb = Format6g(dflt[2]),
                                       !.btn_ok_Enabled = TRUE]
            IN  /\ Form' = "gap"
                /\ gapDlg' = update_gap_info(d0, x_orig)
                /\ shown' = ""
                /\ UNCHANGED <<FunctionList, Selected, rsDlg>>
    /\ UNCHANGED <<ai, pm>>

\* the user edits Xa: edt_xa.OnChange = update_gap_info
GapEditXa ==
    /\ Form = "gap"
    /\ \E t \in GapEdits :
          gapDlg' = update_gap_info([gapDlg EXCEPT !.edt_xa = t],
                                    SeriesX(FunctionList[Selected]))
    /\ UNCHANGED <<FunctionList, Selected, Form, rsDlg, shown, run>>
    /\ UNCHANGED <<ai, pm>>

\* the user edits Xb: edt_xb.OnChange = update_gap_info
GapEditXb ==
    /\ Form = "gap"
    /\ \E t \in GapEdits :
          gapDlg' = update_gap_info([gapDlg EXCEPT !.edt_xb = t],
                                    SeriesX(FunctionList[Selected]))
    /\ UNCHANGED <<FunctionList, Selected, Form, rsDlg, shown, run>>
    /\ UNCHANGED <<ai, pm>>

\* the user picks an interpolation mode: cb_mode has no OnChange handler
GapSelectMode ==
    /\ Form = "gap"
    /\ \E m \in {ModeAverage, ModePre, ModePost, ModeWeighted} :
          gapDlg' = [gapDlg EXCEPT !.cb_mode = m]
    /\ UNCHANGED <<FunctionList, Selected, Form, rsDlg, shown, run>>
    /\ UNCHANGED <<ai, pm>>

\* lines 455-470: the new series, appended to the function list
GapSeries(point_series, r) ==
    [Points |-> r.new_points,
     LegendText |-> Append(point_series.LegendText, r.method_name)]

GapInterpolateInPlace ==
    /\ Form = "gap"
    /\ gapDlg.btn_ok_Enabled
    /\ \E point_series \in {FunctionList[Selected]} :
       \E r \in {SpectralFill(SeriesX(point_series), SeriesY(point_series),
                              gapDlg.edt_xa, gapDlg.edt_xb, gapDlg.cb_mode)} :
           IF r.err = ""
           THEN /\ FunctionList' = [FunctionList EXCEPT
                                    ![Selected] = GapSeries(point_series, r)]
                /\ run' = [r EXCEPT !.src = Selected, !.published = TRUE]
                /\ shown' = ""
           ELSE /\ run' = [r EXCEPT !.src = Selected]
                /\ shown' = r.err
                /\ UNCHANGED FunctionList
    /\ Form' = "none"
    /\ gapDlg' = NoGapDlg
    /\ UNCHANGED <<Selected, rsDlg>>
    /\ UNCHANGED <<ai, pm>>

\* lines 321-476: the Interpolate button closes the form with ModalResult 1
GapInterpolate ==
    /\ Form = "gap"
    /\ gapDlg.btn_ok_Enabled
    /\ \E point_series \in {FunctionList[Selected]} :
       \E r \in {SpectralFill(SeriesX(point_series), SeriesY(point_series),
                              gapDlg.edt_xa, gapDlg.edt_xb, gapDlg.cb_mode)} :
           IF r.err = ""
           THEN /\ FunctionList' = Append(FunctionList, GapSeries(point_series, r))
                /\ run' = [r EXCEPT !.src = Selected, !.published = TRUE]
                /\ shown' = ""
           ELSE /\ run' = [r EXCEPT !.src = Selected]
                /\ shown' = r.err
                /\ UNCHANGED FunctionList
    /\ Form' = "none"
    /\ gapDlg' = NoGapDlg
    /\ UNCHANGED <<Selected, rsDlg>>
    /\ UNCHANGED <<ai, pm>>

\* the Cancel button closes the form with ModalResult 2
GapCancel ==
    /\ Form = "gap"
    /\ Form' = "none"
    /\ gapDlg' = NoGapDlg
    /\ UNCHANGED <<FunctionList, Selected, rsDlg, shown, run>>
    /\ UNCHANGED <<ai, pm>>

\* the user selects an item of the function panel, or none
SelectItem ==
    /\ Form = "none"
    /\ \E i \in 0..Len(FunctionList) : Selected' = i
    /\ UNCHANGED <<FunctionList, Form, gapDlg, rsDlg, shown, run>>
    /\ UNCHANGED <<ai, pm>>

(***************************************************************************)
(* resample_series: the computation run when the form is accepted.         *)
(* The sample values that scipy's interpolators and decimate() return are  *)
(* not modelled: a resampled y is YOpaque.  The lengths of the arrays are. *)
(***************************************************************************)
\* RESAMPLE_MODES, by ItemIndex
RsModePeriod == 0
RsModeFrequency == 1
RsModeCount == 2
RsModeFactor == 3
\* cb_ftype items, by ItemIndex
FtypeFir == 0
FtypeIir == 1
FtypeNone == 2

YOpaque == <<1, 0>>

\* np.arange(start, stop, step): ceil((stop - start) / step) points
Arange(start, stop, step) ==
    LET len == Ceil(RDiv(RSub(stop, start), step))
    IN  [i \in 1..(IF len > 0 THEN len ELSE 0) |-> RAdd(start, RMul(R(i - 1), step))]

DecimateLenFloor(n, q) == n \div q

\* len(scipy.signal.decimate(y, q)): every q-th sample of the filtered y
DecimateLen(n, q) == (n + q - 1) \div q

\* decimate(y, q, ftype='iir') filters forward and backward with an order 8
\* Chebyshev filter, which pads the signal by 3 * (8 + 1) samples and raises
\* ValueError on a signal that is not longer than the padding
IirPadLen == 3 * (8 + 1)
DecimateError(n, ftype_idx) ==
    IF ftype_idx # FtypeFir /\ n <= IirPadLen
    THEN "The length of the input vector x must be greater than padlen"
    ELSE ""

\* lines 305-327: new_period from the mode and the value; err = "" if none
NewPeriodFactorZero(mode_idx, val, x_range, n_points) ==
    IF mode_idx = RsModePeriod THEN
        IF RLe(val, R(0))
        THEN [err |-> "Period must be greater than 0", new_n |-> 0, new_period |-> BadText]
        ELSE [err |-> "", new_n |-> 0, new_period |-> val]
    ELSE IF mode_idx = RsModeFrequency THEN
        IF RLe(val, R(0))
        THEN [err |-> "Frequency must be greater than 0", new_n |-> 0, new_period |-> BadText]
        ELSE [err |-> "", new_n |-> 0, new_period |-> RDiv(R(1), val)]
    ELSE IF mode_idx = RsModeCount THEN
        LET new_n == PyInt(val)
        IN  IF new_n < 2
            THEN [err |-> "Number of points must be at least 2", new_n |-> new_n,
                  new_period |-> BadText]
            ELSE [err |-> "", new_n |-> new_n,
                  new_period |-> RDiv(x_range, R(new_n - 1))]
    ELSE IF mode_idx = RsModeFactor THEN
        IF RLt(val, R(0))
        THEN [err |-> "Factor must be greater than 0", new_n |-> 0, new_period |-> BadText]
        ELSE LET n0 == PyInt(RMul(R(n_points), val))
                 new_n == IF n0 < 2 THEN 2 ELSE n0
             IN  [err |-> "", new_n |-> new_n,
                  new_period |-> RDiv(x_range, R(new_n - 1))]
    ELSE [err |-> "Unrecognized mode", new_n |-> 0, new_period |-> BadText]

NewPeriod(mode_idx, val, x_range, n_points) ==
    IF mode_idx = RsModePeriod THEN
        IF RLe(val, R(0))
        THEN [err |-> "Period must be greater than 0", new_n |-> 0, new_period |-> BadText]
        ELSE [err |-> "", new_n |-> 0, new_period |-> val]
    ELSE IF mode_idx = RsModeFrequency THEN
        IF RLe(val, R(0))
        THEN [err |-> "Frequency must be greater than 0", new_n |-> 0, new_period |-> BadText]
        ELSE [err |-> "", new_n |-> 0, new_period |-> RDiv(R(1), val)]
    ELSE IF mode_idx = RsModeCount THEN
        LET new_n == PyInt(val)
        IN  IF new_n < 2
            THEN [err |-> "Number of points must be at least 2", new_n |-> new_n,
                  new_period |-> BadText]
            ELSE [err |-> "", new_n |-> new_n,
                  new_period |-> RDiv(x_range, R(new_n - 1))]
    ELSE IF mode_idx = RsModeFactor THEN
        IF RLe(val, R(0))
        THEN [err |-> "Factor must be greater than 0", new_n |-> 0, new_period |-> BadText]
        ELSE LET n0 == PyInt(RMul(R(n_points), val))
                 new_n == IF n0 < 2 THEN 2 ELSE n0
             IN  [err |-> "", new_n |-> new_n,
                  new_period |-> RDiv(x_range, R(new_n - 1))]
    ELSE [err |-> "Unrecognized mode", new_n |-> 0, new_period |-> BadText]

\* line 333: whether the decimation branch is taken
UseDecimateAlways(is_downsampling, ftype_idx) == is_downsampling

UseDecimate(is_downsampling, ftype_idx) == is_downsampling /\ ftype_idx < 2

\* lines 336-338: the decimation factor
DecimationFactorFloor(new_period, current_period) ==
    LET q == PyInt(RDiv(new_period, current_period))
    IN  IF q < 2 THEN 2 ELSE q

DecimationFactorNoClamp(new_period, current_period) ==
    PyRound(RDiv(new_period, current_period))

DecimationFactor(new_period, current_period) ==
    LET q == PyRound(RDiv(new_period, current_period))
    IN  IF q < 2 THEN 2 ELSE q

NewGridFullPad(x_min, x_max, new_period) ==
    Arange(x_min, RAdd(x_max, new_period), new_period)

\* lines 357: the grid of the interpolation branch
NewGridNoPad(x_min, x_max, new_period) == Arange(x_min, x_max, new_period)

NewGrid(x_min, x_max, new_period) ==
    Arange(x_min, RAdd(x_max, RDiv(new_period, R(2))), new_period)

\* lines 360-376: the name of the interpolation method; "" if unrecognized
InterpNameDefault(method_idx) ==
    IF method_idx = 1 THEN "CubicSpline"
    ELSE IF method_idx = 2 THEN "Pchip"
    ELSE IF method_idx = 3 THEN "Akima"
    ELSE "np.interp"

InterpName(method_idx) ==
    IF method_idx = 0 THEN "np.interp"
    ELSE IF method_idx = 1 THEN "CubicSpline"
    ELSE IF method_idx = 2 THEN "Pchip"
    ELSE IF method_idx = 3 THEN "Akima"
    ELSE ""

\* lines 297-383 of resample_series: the body of the try block, up to the
\* points of the new series.  err = "" iff no exception was raised.
Resample(x_orig, y_orig, val_text, mode_idx, method_idx, ftype_idx) ==
    Only({
    LET n_points == Len(x_orig)
        x_range == RSub(x_max, x_min)
        r0 == [NoRun EXCEPT !.plugin = "resample", !.mode = mode_idx,
                            !.method_idx = method_idx, !.ftype_idx = ftype_idx,
                            !.current_period = current_period]
    IN
    IF ~IsNumber(val_text)
    THEN [r0 EXCEPT !.err = "could not convert string to float"]
    ELSE
    LET val == val_text
        np == NewPeriod(mode_idx, val, x_range, n_points)
        r1 == [r0 EXCEPT !.val = val, !.new_n = np.new_n]
    IN
    IF np.err # "" THEN [r1 EXCEPT !.err = np.err]
    ELSE
    LET new_period == np.new_period
        is_downsampling == RGt(new_period, current_period)
        r2 == [r1 EXCEPT !.new_period = new_period]
    IN
    IF UseDecimate(is_downsampling, ftype_idx)
    THEN
        LET q == DecimationFactor(new_period, current_period)
            r3 == [r2 EXCEPT !.path = "decimate", !.q = q]
        IN
        IF DecimateError(Len(y_orig), ftype_idx) # ""
        THEN [r3 EXCEPT !.err = DecimateError(Len(y_orig), ftype_idx)]
        ELSE
        LET y_len == DecimateLen(Len(y_orig), q)
            x_new == PySlice(Stride(x_orig, q), 0, y_len)
            min_len == IF Len(x_new) < y_len THEN Len(x_new) ELSE y_len
            x_cut == PySlice(x_new, 0, min_len)
            y_cut == [i \in 1..min_len |-> YOpaque]
        IN  [r3 EXCEPT !.x_new = x_cut,
                       !.y_len = min_len,
                       !.method_name =
                           "decimate(q=" \o ToString(q) \o ", ftype="
                           \o (IF ftype_idx = 0 THEN "fir" ELSE "iir") \o ")",
                       !.new_points = ZipPoints(x_cut, y_cut)]
    ELSE
        LET x_new == NewGrid(x_min, x_max, new_period)
            y_new == [i \in 1..Len(x_new) |-> YOpaque]
            r3 == [r2 EXCEPT !.path = "interp", !.x_new = x_new]
        IN  IF InterpName(method_idx) = ""
            THEN [r3 EXCEPT !.err = "Unrecognized method"]
            ELSE [r3 EXCEPT !.y_len = Len(y_new),
                            !.method_name = InterpName(method_idx),
                            !.new_points = ZipPoints(x_new, y_new)]
    : current_period \in {MeanDiff(x_orig)},
      x_min \in {SeqMin(x_orig)},
      x_max \in {SeqMax(x_orig)} })

(***************************************************************************)
(* The Resample form.                                                      *)
(***************************************************************************)
NoRsDlg ==
    [cmb_mode |-> 0, edt_value |-> BadText, cb_method |-> 0, cb_ftype |-> 0,
     lbl_new_points |-> "", new_count |-> 0,
     btn_ok_Caption |-> "", ftype_Visible |-> FALSE]

\* lines 228-276: update_points_count, the OnChange handler of the value
update_points_count(d, x_orig) ==
    LET n_points == Len(x_orig)
        current_period == MeanDiff(x_orig)
        x_range == RSub(SeqMax(x_orig), SeqMin(x_orig))
        mode_idx == d.cmb_mode
        val == d.edt_value
        pos == RGt(val, R(0))
        new_period == IF mode_idx = RsModeFrequency THEN RDiv(R(1), val) ELSE val
        new_count ==
            IF mode_idx \in {RsModePeriod, RsModeFrequency}
            THEN PyInt(RDiv(x_range, new_period)) + 1
            ELSE IF mode_idx = RsModeCount THEN PyInt(val)
            ELSE PyInt(RMul(R(n_points), val))
        valid == IF mode_idx = RsModeCount THEN new_count >= 2 ELSE pos
        is_downsampling ==
            valid /\ (IF mode_idx \in {RsModePeriod, RsModeFrequency}
                      THEN RGt(new_period, current_period)
                      ELSE IF mode_idx = RsModeCount THEN new_count < n_points
                      ELSE RLt(val, R(1)))
    IN
    IF ~IsNumber(val)
    THEN [d EXCEPT !.lbl_new_points = "(error)", !.new_count = 0,
                   !.btn_ok_Caption = "Resample", !.ftype_Visible = FALSE]
    ELSE [d EXCEPT
            !.lbl_new_points =
                IF ~valid THEN (IF mode_idx = RsModeCount THEN "(min 2)" ELSE "(invalid)")
                ELSE IF mode_idx = RsModeCount THEN "(= new_count points)"
                ELSE "(~ new_count points)",
            !.new_count = IF valid THEN new_count ELSE 0,
            !.btn_ok_Caption = IF is_downsampling THEN "Downsample" ELSE "Resample",
            !.ftype_Visible = is_downsampling]

\* lines 278-290: update_default_value, the OnChange handler of the mode
update_default_value(d, x_orig) ==
    LET n_points == Len(x_orig)
        current_period == MeanDiff(x_orig)
        mode_idx == d.cmb_mode
        text == IF mode_idx = RsModePeriod THEN Format6g(current_period)
                ELSE IF mode_idx = RsModeFrequency
                THEN Format6g(IF RGt(current_period, R(0))
                              THEN RDiv(R(1), current_period) ELSE R(1))
                ELSE IF mode_idx = RsModeCount THEN R(n_points)
                ELSE R(2)
    IN  update_points_count([d EXCEPT !.edt_value = text], x_orig)

\* texts the user types into the value edit box
RsEdits ==
    {BadText, R(0), Frac(1, 4), Frac(1, 2), R(1), Frac(5, 4), Frac(3, 2), R(2),
     Frac(5, 2), R(3), R(5), R(7)}

\* lines 35-294: the plugin is invoked from the menu
resample_series ==
    /\ Form = "none"
    /\ Len(FunctionList) < MaxRsFuncs
    /\ run' = NoRun
    /\ IF Selected = 0
       THEN /\ shown' = "No item selected in the function panel."
            /\ UNCHANGED <<FunctionList, Selected, Form, gapDlg, rsDlg>>
       ELSE IF Len(FunctionList[Selected].Points) < MinResamplePoints
       THEN /\ shown' = "The series must have at least 2 points."
            /\ UNCHANGED <<FunctionList, Selected, Form, gapDlg, rsDlg>>
       ELSE LET x_orig == SeriesX(FunctionList[Selected])
            IN  /\ Form' = "resample"
                /\ rsDlg' = [cmb_mode |-> 0,
                             edt_value |-> Format6g(MeanDiff(x_orig)),
                             cb_method |-> 1, cb_ftype |-> 0,
                             lbl_new_points |-> "(~ new_count points)",
                             new_count |-> Len(x_orig),
                             btn_ok_Caption |-> "Resample",
                             ftype_Visible |-> FALSE]
                /\ shown' = ""
                /\ UNCHANGED <<FunctionList, Selected, gapDlg>>
    /\ UNCHANGED <<ai, pm>>

\* the user picks a resampling mode: cmb_mode.OnChange = update_default_value
RsSelectMode ==
    /\ Form = "resample"
    /\ \E m \in {RsModePeriod, RsModeFrequency, RsModeCount, RsModeFactor} :
          rsDlg' = update_default_value([rsDlg EXCEPT !.cmb_mode = m],
                                        SeriesX(FunctionList[Selected]))
    /\ UNCHANGED <<FunctionList, Selected, Form, gapDlg, shown, run>>
    /\ UNCHANGED <<ai, pm>>

\* the user edits the value: edt_value.OnChange = update_points_count
RsEditValue ==
    /\ Form = "resample"
    /\ \E t \in RsEdits :
          rsDlg' = update_points_count([rsDlg EXCEPT !.edt_value = t],
                                       SeriesX(FunctionList[Selected]))
    /\ UNCHANGED <<FunctionList, Selected, Form, gapDlg, shown, run>>
    /\ UNCHANGED <<ai, pm>>

\* the user picks an interpolation method
RsSelectMethod ==
    /\ Form = "resample"
    /\ \E m \in 0..3 : rsDlg' = [rsDlg EXCEPT !.cb_method = m]
    /\ UNCHANGED <<FunctionList, Selected, Form, gapDlg, shown, run>>
    /\ UNCHANGED <<ai, pm>>

\* the user picks a filter type; the combo box is there only while visible
RsSelectFtype ==
    /\ Form = "resample"
    /\ rsDlg.ftype_Visible
    /\ \E f \in {FtypeFir, FtypeIir, FtypeNone} :
          rsDlg' = [rsDlg EXCEPT !.cb_ftype = f]
    /\ UNCHANGED <<FunctionList, Selected, Form, gapDlg, shown, run>>
    /\ UNCHANGED <<ai, pm>>

\* lines 385-400: the new series, appended to the function list
RsSeries(point_series, r) ==
    LET operation_type == IF r.path = "decimate" THEN "downsample" ELSE "resample"
    IN  [Points |-> r.new_points,
         LegendText |-> Append(point_series.LegendText,
                               operation_type \o " " \o r.method_name)]

RsAcceptPartial ==
    /\ Form = "resample"
    /\ \E point_series \in {FunctionList[Selected]} :
       \E r \in {Resample(SeriesX(point_series), SeriesY(point_series),
                          rsDlg.edt_value, rsDlg.cmb_mode, rsDlg.cb_method,
                          rsDlg.cb_ftype)} :
           IF r.err = ""
           THEN /\ FunctionList' = Append(FunctionList, RsSeries(point_series, r))
                /\ run' = [r EXCEPT !.src = Selected, !.published = TRUE]
                /\ shown' = ""
           ELSE /\ run' = [r EXCEPT !.src = Selected]
                /\ shown' = r.err
                /\ FunctionList' = Append(FunctionList, RsSeries(point_series, r))
    /\ Form' = "none"
    /\ rsDlg' = NoRsDlg
    /\ UNCHANGED <<Selected, gapDlg>>
    /\ UNCHANGED <<ai, pm>>

\* lines 296-416: the Resample button closes the form with ModalResult 1
RsAccept ==
    /\ Form = "resample"
    /\ \E point_series \in {FunctionList[Selected]} :
       \E r \in {Resample(SeriesX(point_series), SeriesY(point_series),
                          rsDlg.edt_value, rsDlg.cmb_mode, rsDlg.cb_method,
                          rsDlg.cb_ftype)} :
           IF r.err = ""
           THEN /\ FunctionList' = Append(FunctionList, RsSeries(point_series, r))
                /\ run' = [r EXCEPT !.src = Selected, !.published = TRUE]
                /\ shown' = ""
           ELSE /\ run' = [r EXCEPT !.src = Selected]
                /\ shown' = r.err
                /\ UNCHANGED FunctionList
    /\ Form' = "none"
    /\ rsDlg' = NoRsDlg
    /\ UNCHANGED <<Selected, gapDlg>>
    /\ UNCHANGED <<ai, pm>>

\* the Cancel button closes the form with ModalResult 2
RsCancel ==
    /\ Form = "resample"
    /\ Form' = "none"
    /\ rsDlg' = NoRsDlg
    /\ UNCHANGED <<FunctionList, Selected, gapDlg, shown, run>>
    /\ UNCHANGED <<ai, pm>>

(***************************************************************************)
(* The document the gap filler is run on.                                  *)
(***************************************************************************)
\* a uniformly sampled series of n points, x = 0, 3, 6, ...
GapSignal(n) ==
    [Points |-> [i \in 1..n |-> Point(R(3 * (i - 1)), R((i * i) % 7))],
     LegendText |-> <<"signal">>]

ShortSignal ==
    [Points |-> [i \in 1..4 |-> Point(R(i), R(i * i))],
     LegendText |-> <<"short">>]

OnePoint ==
    [Points |-> <<Point(R(0), R(1))>>, LegendText |-> <<"single">>]

InitGap ==
    /\ FunctionList = <<GapSignal(MinGapPoints), ShortSignal, OnePoint>>
    /\ Selected = 0
    /\ Form = "none"
    /\ gapDlg = NoGapDlg
    /\ rsDlg = NoRsDlg
    /\ shown = ""
    /\ run = NoRun
    /\ ai = NoAi
    /\ pm = NoPm

NextGap ==
    \/ SelectItem
    \/ spectral_interpolation
    \/ GapEditXa
    \/ GapEditXb
    \/ GapSelectMode
    \/ GapInterpolate
    \/ GapCancel

SpecGap == InitGap /\ [][NextGap]_vars

(***************************************************************************)
(* Claims about the gap filler, checked under SpecGap.                     *)
(***************************************************************************)
\* the first 0-based index whose x is >= v, Len(x) if there is none
FirstIndexGE(x, v) ==
    CHOOSE i \in 0..Len(x) :
        /\ i = Len(x) \/ RGe(At(x, i), v)
        /\ \A j \in 0..(i - 1) : RLt(At(x, j), v)

GapRan == run.plugin = "gap"
GapDone == GapRan /\ run.published
GapInput == FunctionList[run.src]
GapOutput == FunctionList[Len(FunctionList)]
GapIdxA == FirstIndexGE(SeriesX(GapInput), run.xa)
GapIdxB == FirstIndexGE(SeriesX(GapInput), run.xb)
InsufficientErrors ==
    {"Insufficient data on both sides of the gap",
     "Insufficient data before the gap",
     "Insufficient data after the gap"}

\* C1: after a successful fill every sample of the result whose index lies
\* outside [idx_a, idx_b) equals the input sample at that index, idx_a and
\* idx_b being the first indices whose x is >= xa and >= xb.
C1_FrameOutsideGap ==
    GapDone =>
        LET n == Len(GapInput.Points)
        IN  \A i \in 0..(n - 1) :
                (i < GapIdxA \/ i >= GapIdxB) =>
                    /\ At(run.y_result, i) = At(GapInput.Points, i).y
                    /\ i < Len(GapOutput.Points)
                    /\ At(GapOutput.Points, i) = At(GapInput.Points, i)

\* a fill strictly inside the signal that changed a sample of the gap
C1_Witness ==
    /\ GapDone
    /\ 0 < GapIdxA /\ GapIdxB < Len(GapInput.Points)
    /\ \E i \in GapIdxA..(GapIdxB - 1) :
          At(GapOutput.Points, i).y # At(GapInput.Points, i).y

\* C2: after a successful fill the result Y array and the published series
\* have as many samples as the input, and the synthesized fill has exactly
\* idx_b - idx_a samples.
C2_LengthInvariant ==
    GapDone =>
        /\ Len(run.y_result) = Len(GapInput.Points)
        /\ Len(GapOutput.Points) = Len(GapInput.Points)
        /\ Len(run.interpolated) = GapIdxB - GapIdxA
        /\ Len(run.interpolated) = run.idx_b - run.idx_a

\* a successful fill of a gap of at least 3 samples that ends at the last sample
C2_Witness ==
    /\ GapDone
    /\ GapIdxB - GapIdxA >= 3
    /\ GapIdxB = Len(GapInput.Points)

\* what the claims call availability, from the first-index definition
GapSizeOf == GapIdxB - GapIdxA
PreAvailable == GapIdxA >= GapSizeOf
PostAvailable == Len(GapInput.Points) - GapIdxB >= GapSizeOf
\* the run got past the checks of the range and of the gap size
GapValidated == GapRan /\ IsNumber(run.xa) /\ IsNumber(run.xb)
                /\ RLt(run.xa, run.xb) /\ GapSizeOf >= 2

\* C3: Average or Weighted with exactly one side available proceeds as
\* PreOnly (only pre available) or PostOnly (only post available), with no
\* error; with both sides available the requested mode is used unchanged.
C3_ModeFallback ==
    (GapValidated /\ run.requested \in {ModeAverage, ModeWeighted}) =>
        /\ (PreAvailable /\ ~PostAvailable) =>
              (run.err = "" /\ run.published /\ run.mode_idx = ModePre
               /\ run.method_name = "pre-gap")
        /\ (~PreAvailable /\ PostAvailable) =>
              (run.err = "" /\ run.published /\ run.mode_idx = ModePost
               /\ run.method_name = "post-gap")
        /\ (PreAvailable /\ PostAvailable) =>
              (run.err = "" /\ run.published /\ run.mode_idx = run.requested)

\* Weighted was asked for, only the post side is available, filled as PostOnly
C3_Witness ==
    /\ GapValidated /\ run.requested = ModeWeighted
    /\ ~PreAvailable /\ PostAvailable
    /\ run.published /\ run.mode_idx = ModePost

\* C4: when neither side of the gap has gap_size samples, accepting the form
\* shows an insufficient-data error, whatever the mode, and the function
\* list is left as it was: no series is produced.
C4_NeitherSideFails ==
    [][(Form = "gap" /\ Form' = "none" /\ run'.plugin = "gap"
        /\ IsNumber(run'.xa) /\ IsNumber(run'.xb) /\ RLt(run'.xa, run'.xb)
        /\ LET x == SeriesX(FunctionList[Selected])
               a == FirstIndexGE(x, run'.xa)
               b == FirstIndexGE(x, run'.xb)
           IN  b - a >= 2 /\ a < b - a /\ Len(x) - b < b - a)
       => (/\ shown' \in InsufficientErrors
           /\ run'.err = shown'
           /\ ~run'.published
           /\ run'.y_result = <<>> /\ run'.new_points = <<>>
           /\ FunctionList' = FunctionList)]_vars

\* a run asked for Pre-gap only with neither side available, and it failed
C4_Witness ==
    /\ GapValidated /\ ~PreAvailable /\ ~PostAvailable
    /\ run.requested = ModePre
    /\ run.err \in InsufficientErrors

\* C5: xa >= xb fails with the range error; otherwise a gap of fewer than 2
\* samples fails with the gap-size error; both before availability is looked
\* at or a segment is taken, so a fill is computed only with xa < xb and
\* gap_size >= 2.  The first part is also stated of the handler body for
\* the Xa of the form and every Xb, as the button only lets xa < xb through.
C5_ValidationOrder ==
    /\ (GapRan /\ IsNumber(run.xa) /\ IsNumber(run.xb)) =>
          /\ RGe(run.xa, run.xb) =>
                run.err = "Gap start (Xa) must be less than gap end (Xb)"
          /\ (RLt(run.xa, run.xb) /\ GapSizeOf < 2) =>
                /\ run.err = "Gap must contain at least 2 points"
                /\ ~run.has_pre /\ ~run.has_post
                /\ run.mode_idx = run.requested
                /\ run.segment_pre = <<>> /\ run.segment_post = <<>>
                /\ run.interpolated = <<>>
          /\ (run.err = "" \/ run.segment_pre # <<>> \/ run.segment_post # <<>>
              \/ run.interpolated # <<>>) =>
                (RLt(run.xa, run.xb) /\ GapSizeOf >= 2 /\ run.gap_size >= 2)
    /\ (Form = "gap" /\ IsNumber(gapDlg.edt_xa)) =>
          \A ta \in {gapDlg.edt_xa}, tb \in GapEdits \ {BadText} :
              LET s == FunctionList[Selected]
                  r == SpectralFill(SeriesX(s), SeriesY(s), ta, tb, gapDlg.cb_mode)
                  x == SeriesX(s)
                  g == FirstIndexGE(x, tb) - FirstIndexGE(x, ta)
              IN  /\ RGe(ta, tb) =>
                        (r.err = "Gap start (Xa) must be less than gap end (Xb)"
                         /\ r.idx_a = -1 /\ r.new_points = <<>>)
                  /\ (RLt(ta, tb) /\ g < 2) =>
                        (r.err = "Gap must contain at least 2 points"
                         /\ r.new_points = <<>>)
                  /\ r.err = "" => (RLt(ta, tb) /\ g >= 2)

\* the form was accepted with xa < xb and a gap of one sample: gap-size error
C5_Witness ==
    /\ GapRan /\ IsNumber(run.xa) /\ IsNumber(run.xb)
    /\ RLt(run.xa, run.xb) /\ GapSizeOf = 1
    /\ run.err = "Gap must contain at least 2 points"
    /\ shown = run.err

\* C6: after a successful fill the sample just before the gap and the sample
\* just after it, where the signal has them, are those of the input.
C6_BoundaryContinuity ==
    GapDone =>
        /\ GapIdxA > 0 =>
              /\ At(run.y_result, GapIdxA - 1) = At(GapInput.Points, GapIdxA - 1).y
              /\ At(GapOutput.Points, GapIdxA - 1).y
                     = At(GapInput.Points, GapIdxA - 1).y
        /\ GapIdxB < Len(GapInput.Points) =>
              /\ At(run.y_result, GapIdxB) = At(GapInput.Points, GapIdxB).y
              /\ At(GapOutput.Points, GapIdxB).y = At(GapInput.Points, GapIdxB).y

\* a fill with a sample on both sides, whose first and last samples changed
C6_Witness ==
    /\ GapDone
    /\ GapIdxA > 0 /\ GapIdxB < Len(GapInput.Points)
    /\ At(GapOutput.Points, GapIdxA).y # At(GapInput.Points, GapIdxA).y
    /\ At(GapOutput.Points, GapIdxB - 1).y # At(GapInput.Points, GapIdxB - 1).y

(***************************************************************************)
(* The document the resampler is run on.                                   *)
(***************************************************************************)
\* a uniformly sampled series of 30 points, x = 0, 1, 2, ...
RsSignal ==
    [Points |-> [i \in 1..30 |-> Point(R(i - 1), R((i * i) % 7))],
     LegendText |-> <<"signal">>]

InitResample ==
    /\ FunctionList = <<RsSignal, ShortSignal, OnePoint>>
    /\ Selected = 0
    /\ Form = "none"
    /\ gapDlg = NoGapDlg
    /\ rsDlg = NoRsDlg
    /\ shown = ""
    /\ run = NoRun
    /\ ai = NoAi
    /\ pm = NoPm

NextResample ==
    \/ SelectItem
    \/ resample_series
    \/ RsSelectMode
    \/ RsEditValue
    \/ RsSelectMethod
    \/ RsSelectFtype
    \/ RsAccept
    \/ RsCancel

SpecResample == InitResample /\ [][NextResample]_vars

(***************************************************************************)
(* The computation of the Resample button as a function of the values it   *)
(* reads from the form (lines 296-413): the value text, the mode index,    *)
(* the method index and the filter index are drawn from sets that include  *)
(* indices outside the items of the combo boxes.                           *)
(***************************************************************************)
MethodTags == {-1, 0, 1, 2, 3, 4}
FilterTags == {-1, 0, 1, 2, 3}

\* a series whose samples are not evenly spaced: mean spacing 12/7
UnevenSignal ==
    [Points |-> [i \in 1..8 |->
                    Point(R(<<0, 1, 3, 4, 6, 7, 9, 12>>[i]), R((i * i) % 5))],
     LegendText |-> <<"uneven">>]

InitResampleCall ==
    /\ FunctionList = <<RsSignal, ShortSignal, UnevenSignal>>
    /\ Selected \in {1, 2, 3}
    /\ Form = "none"
    /\ gapDlg = NoGapDlg
    /\ rsDlg = NoRsDlg
    /\ shown = ""
    /\ ai = NoAi
    /\ pm = NoPm
    /\ \E val_text \in RsEdits, mode_idx \in 0..3,
          method_idx \in MethodTags, ftype_idx \in FilterTags :
           run = [NoRun EXCEPT !.plugin = "call", !.val = val_text,
                               !.mode = mode_idx, !.method_idx = method_idx,
                               !.ftype_idx = ftype_idx]

\* lines 296-413 applied to the drawn values
ResampleCall ==
    /\ run.plugin = "call"
    /\ \E point_series \in {FunctionList[Selected]} :
       \E r \in {Resample(SeriesX(point_series), SeriesY(point_series),
                          run.val, run.mode, run.method_idx, run.ftype_idx)} :
           IF r.err = ""
           THEN /\ FunctionList' = Append(FunctionList, RsSeries(point_series, r))
                /\ run' = [r EXCEPT !.src = Selected, !.published = TRUE]
                /\ shown' = ""
           ELSE /\ run' = [r EXCEPT !.src = Selected]
                /\ shown' = r.err
                /\ UNCHANGED FunctionList
    /\ UNCHANGED <<Selected, Form, gapDlg, rsDlg>>
    /\ UNCHANGED <<ai, pm>>

SpecResampleCall == InitResampleCall /\ [][ResampleCall]_vars

(***************************************************************************)
(* A document on which both plugins are run.                               *)
(***************************************************************************)
InitMorph ==
    /\ FunctionList = <<GapSignal(MinGapPoints), ShortSignal, OnePoint>>
    /\ Selected = 0
    /\ Form = "none"
    /\ gapDlg = NoGapDlg
    /\ rsDlg = NoRsDlg
    /\ shown = ""
    /\ run = NoRun
    /\ ai = NoAi
    /\ pm = NoPm

NextMorph ==
    \/ SelectItem
    \/ spectral_interpolation
    \/ GapEditXa
    \/ GapEditXb
    \/ GapSelectMode
    \/ GapInterpolate
    \/ GapCancel
    \/ resample_series
    \/ RsSelectMode
    \/ RsEditValue
    \/ RsSelectMethod
    \/ RsSelectFtype
    \/ RsAccept
    \/ RsCancel

SpecMorph == InitMorph /\ [][NextMorph]_vars

(***************************************************************************)
(* Claims about the resampler, checked under SpecResample.                 *)
(***************************************************************************)
RsRan == run.plugin = "resample"
RsDone == RsRan /\ run.published
RsInput == FunctionList[run.src]
RsOutput == FunctionList[Len(FunctionList)]

\* the points x_min, x_min + P, x_min + 2P, ... that lie below x_max + P/2
GridPoints(x_min, x_max, P) ==
    LET top == Ceil(RDiv(RSub(x_max, x_min), P)) + 1
        k == Cardinality({i \in 0..top :
                 RLt(RAdd(x_min, RMul(R(i), P)), RAdd(x_max, RDiv(P, R(2))))})
    IN  [i \in 1..k |-> RAdd(x_min, RMul(R(i - 1), P))]

\* every q-th element of x, from the first
EveryNth(x, q) == [i \in 1..((Len(x) + q - 1) \div q) |-> x[q * (i - 1) + 1]]

\* C7: a run that got to a period takes the decimation path iff
\* new_period > current_period and the filter is FIR or IIR, and the
\* interpolation path on the arange grid otherwise; current_period = 1,
\* new_period = 3 and FIR decimate with q = 3, keeping every third sample.
C7_PathSelection ==
    (RsRan /\ IsNumber(run.new_period)) =>
        LET x == SeriesX(RsInput)
            current_period == MeanDiff(x)
            down == RGt(run.new_period, current_period)
            filtered == run.ftype_idx \in {FtypeFir, FtypeIir}
        IN  /\ (run.path = "decimate") <=> (down /\ filtered)
            /\ (run.path = "interp") <=> ~(down /\ filtered)
            /\ run.path = "interp" =>
                  /\ run.published
                  /\ run.x_new = GridPoints(SeqMin(x), SeqMax(x), run.new_period)
                  /\ SeriesX(RsOutput) = run.x_new
            /\ (current_period = R(1) /\ run.new_period = R(3)
                /\ run.ftype_idx = FtypeFir) =>
                  /\ run.path = "decimate" /\ run.q = 3 /\ run.published
                  /\ SeriesX(RsOutput) = EveryNth(x, 3)

\* period 1 resampled to period 3 with the FIR filter: decimated with q = 3
C7_Witness ==
    /\ RsDone
    /\ MeanDiff(SeriesX(RsInput)) = R(1)
    /\ run.new_period = R(3) /\ run.ftype_idx = FtypeFir
    /\ run.path = "decimate" /\ run.q = 3
    /\ Len(RsOutput.Points) = 10

\* the x-grid of the published series, and the range of the input
RsGrid == SeriesX(RsOutput)
RsXMin == SeqMin(SeriesX(RsInput))
RsXMax == SeqMax(SeriesX(RsInput))

\* the 1-based position in the input of the i-th decimated sample
q_index(i) == run.q * (i - 1) + 1

\* C8 as claimed: the grid of a successful resample starts at x_min, has
\* consecutive spacing new_period, ends at x_max and stays within
\* [x_min, x_max].
C8_RangeCoverageClaimed ==
    RsDone =>
        LET g == RsGrid
        IN  /\ g[1] = RsXMin
            /\ \A i \in 1..(Len(g) - 1) : RSub(g[i + 1], g[i]) = run.new_period
            /\ g[Len(g)] = RsXMax
            /\ \A i \in 1..Len(g) : RLe(RsXMin, g[i]) /\ RLe(g[i], RsXMax)

\* C8: the grid of a successful resample is not empty and starts at x_min.
\* On the interpolation path consecutive points are new_period apart and the
\* last point is within half a period of x_max:
\* x_max - P/2 <= last < x_max + P/2.  On the decimation path the grid is
\* every q-th x of the input from the first one, up to the last such sample,
\* so it stays within [x_min, x_max] and ends less than q samples before
\* the end of the input.
C8_GridShape ==
    RsDone =>
        LET g == RsGrid
            x == SeriesX(RsInput)
            half == RDiv(run.new_period, R(2))
        IN  /\ g = run.x_new
            /\ Len(g) >= 1
            /\ g[1] = RsXMin
            /\ run.path = "interp" =>
                  /\ \A i \in 1..(Len(g) - 1) :
                        RSub(g[i + 1], g[i]) = run.new_period
                  /\ RLe(RSub(RsXMax, half), g[Len(g)])
                  /\ RLt(g[Len(g)], RAdd(RsXMax, half))
            /\ run.path = "decimate" =>
                  /\ \A i \in 1..Len(g) :
                        /\ q_index(i) <= Len(x)
                        /\ g[i] = x[q_index(i)]
                        /\ RLe(RsXMin, g[i]) /\ RLe(g[i], RsXMax)
                  /\ Len(x) - q_index(Len(g)) < run.q

\* an interpolation grid whose last point lies beyond x_max
C8_Witness ==
    /\ RsDone
    /\ run.path = "interp"
    /\ Len(RsGrid) >= 3
    /\ RGt(RsGrid[Len(RsGrid)], RsXMax)

\* the published series resampled again: the same period typed into the
\* form in "New Sampling Period" mode, the same method and the same filter
ResampleAgain ==
    IF Len(RsOutput.Points) < MinResamplePoints
    THEN [NoRun EXCEPT !.plugin = "resample",
                       !.err = "The series must have at least 2 points."]
    ELSE Resample(SeriesX(RsOutput), SeriesY(RsOutput), run.new_period,
                  RsModePeriod, run.method_idx, run.ftype_idx)

\* C9 as claimed: resampling the result of any successful resample again
\* with the same period, method and filter succeeds with the same x-grid and
\* the same number of points.
C9_IdempotenceClaimed ==
    RsDone =>
        /\ ResampleAgain.err = ""
        /\ ResampleAgain.x_new = run.x_new
        /\ Len(ResampleAgain.new_points) = Len(run.new_points)

\* C9: with the filter None, when the first resample gave at least two
\* points, resampling its result again with the same period and method takes
\* the interpolation path again and yields the same x-grid and the same
\* number of points.
C9_IdempotenceNoFilter ==
    (RsDone /\ run.ftype_idx = FtypeNone /\ Len(run.new_points) >= 2) =>
        /\ run.path = "interp"
        /\ ResampleAgain.err = ""
        /\ ResampleAgain.path = "interp"
        /\ ResampleAgain.x_new = run.x_new
        /\ Len(ResampleAgain.new_points) = Len(run.new_points)

\* a downsampling with the filter None whose grid stops short of x_max, so
\* that the second pass works on another range than the first
C9_Witness ==
    /\ RsDone /\ run.ftype_idx = FtypeNone
    /\ RGt(run.new_period, MeanDiff(SeriesX(RsInput)))
    /\ Len(run.new_points) >= 2
    /\ RLt(RsGrid[Len(RsGrid)], RsXMax)
    /\ ResampleAgain.x_new = run.x_new

\* C10 as claimed: in "New Number of Points" mode with a count N >= 2 the
\* form announces "(= N points)", and accepting it derives the period
\* range / (N - 1) and publishes a series of exactly N points, whatever the
\* filter.
C10_CountModeClaimed ==
    /\ (Form = "resample" /\ rsDlg.cmb_mode = RsModeCount
        /\ IsNumber(rsDlg.edt_value) /\ PyInt(rsDlg.edt_value) >= 2) =>
          /\ rsDlg.lbl_new_points = "(= new_count points)"
          /\ rsDlg.new_count = PyInt(rsDlg.edt_value)
    /\ (RsRan /\ run.mode = RsModeCount /\ IsNumber(run.val)
        /\ PyInt(run.val) >= 2) =>
          /\ run.new_n = PyInt(run.val)
          /\ run.new_period = RDiv(RSub(RsXMax, RsXMin), R(run.new_n - 1))
          /\ run.published
          /\ Len(RsOutput.Points) = run.new_n

(***************************************************************************)
(* C11: a period <= 0, a frequency <= 0, a factor <= 0 or a point count    *)
(* below 2 makes the resample fail before a grid or a decimation is        *)
(* computed, and nothing is published; every published resample was        *)
(* computed with new_period > 0.                                           *)
(***************************************************************************)
C11_InvalidValue ==
    /\ IsNumber(run.val)
    /\ \/ /\ run.mode \in {RsModePeriod, RsModeFrequency, RsModeFactor}
          /\ RLe(run.val, R(0))
       \/ /\ run.mode = RsModeCount
          /\ PyInt(run.val) < 2

C11_ParameterValidation ==
    /\ (RsRan /\ C11_InvalidValue) =>
           /\ run.err \in {"Period must be greater than 0",
                           "Frequency must be greater than 0",
                           "Factor must be greater than 0",
                           "Number of points must be at least 2"}
           /\ ~run.published
           /\ run.new_period = BadText
           /\ run.path = ""
           /\ run.q = 0
           /\ run.x_new = <<>>
           /\ run.new_points = <<>>
    /\ RsDone =>
           /\ IsNumber(run.new_period)
           /\ RGt(run.new_period, R(0))

C11_Witness ==
    /\ RsRan
    /\ run.mode = RsModeFactor
    /\ run.val = R(0)
    /\ run.err = "Factor must be greater than 0"
    /\ shown = run.err
    /\ Len(FunctionList) = 3

(***************************************************************************)
(* C12 as claimed: a method index outside the four methods or a filter     *)
(* index outside FIR, IIR, None always makes a resample whose value was    *)
(* accepted fail with an unrecognized-option error, publishing nothing.    *)
(***************************************************************************)
C12_BadMethod == run.method_idx \notin {0, 1, 2, 3}
C12_BadFilter == run.ftype_idx \notin {FtypeFir, FtypeIir, FtypeNone}

C13_FactorCount == PyInt(RMul(R(Len(RsInput.Points)), run.val))

C13_NoSilentClampingClaimed ==
    (RsRan /\ IsNumber(run.val) /\ run.mode = RsModeFactor
           /\ C13_FactorCount < 2) =>
        /\ run.err # ""
        /\ ~run.published

(***************************************************************************)
(* C13: the values adjusted without an error are the Average/Weighted mode *)
(* fallback, the decimation factor (clamped to q >= 2), the output count   *)
(* of a positive factor (clamped to 2 points) and gap bounds outside the   *)
(* signal (the gap is cut at the first or last sample); a period,          *)
(* frequency or factor <= 0, a count < 2, Xa >= Xb, a gap of fewer than 2  *)
(* samples and a requested side without context are reported as errors,    *)
(* and every other accepted value is used as supplied.                     *)
(***************************************************************************)
C13_XRange == RSub(SeqMax(SeriesX(RsInput)), SeqMin(SeriesX(RsInput)))

C13_Resample ==
    (RsRan /\ IsNumber(run.val)) =>
        /\ C11_InvalidValue => (run.err # "" /\ ~run.published)
        /\ ~C11_InvalidValue =>
              /\ run.path # ""
              /\ run.mode = RsModePeriod => run.new_period = run.val
              /\ run.mode = RsModeFrequency =>
                     run.new_period = RDiv(R(1), run.val)
              /\ run.mode = RsModeCount => run.new_n = PyInt(run.val)
              /\ run.mode = RsModeFactor =>
                     run.new_n = (IF C13_FactorCount < 2 THEN 2
                                  ELSE C13_FactorCount)
              /\ run.mode \in {RsModeCount, RsModeFactor} =>
                     run.new_period = RDiv(C13_XRange, R(run.new_n - 1))
        /\ run.path = "decimate" =>
              \E ratio \in {PyRound(RDiv(run.new_period, run.current_period))} :
                  run.q = (IF ratio < 2 THEN 2 ELSE ratio)

C13_Gap ==
    (GapRan /\ IsNumber(run.xa) /\ IsNumber(run.xb)) =>
        /\ RGe(run.xa, run.xb) =>
              /\ run.err = "Gap start (Xa) must be less than gap end (Xb)"
              /\ ~run.published
        /\ (RLt(run.xa, run.xb) /\ GapSizeOf < 2) =>
              /\ run.err = "Gap must contain at least 2 points"
              /\ ~run.published
        /\ GapValidated =>
              /\ run.idx_a = GapIdxA
              /\ run.idx_b = GapIdxB
              /\ run.err \in InsufficientErrors \cup {""}
              /\ run.published <=> run.err = ""
              /\ run.err # "" <=>
                     \/ ~PreAvailable /\ ~PostAvailable
                     \/ ~PreAvailable /\ run.requested = ModePre
                     \/ ~PostAvailable /\ run.requested = ModePost
              /\ (run.published /\ run.mode_idx # run.requested) =>
                     /\ run.requested \in {ModeAverage, ModeWeighted}
                     /\ PreAvailable # PostAvailable

C13_SilentAdjustments == C13_Resample /\ C13_Gap

\* a factor of 1/4 on a series of 4 points: 1 output point, resampled to 2
C13_Witness ==
    /\ RsDone
    /\ run.mode = RsModeFactor
    /\ C13_FactorCount < 2
    /\ run.new_n = 2
    /\ Len(RsOutput.Points) = 2

(***************************************************************************)
(* C14: a gap fill or a resample that fails with an error, is rejected     *)
(* before its form opens, or is cancelled, leaves the function list, and   *)
(* with it the points of the selected series, as it was; the list changes  *)
(* only in a step that ends a run without an error.                        *)
(***************************************************************************)
C14_FailureLeavesDocument ==
    [][/\ (run'.err # "" \/ ~run'.published) => FunctionList' = FunctionList
       /\ shown' # "" => FunctionList' = FunctionList
       /\ (GapCancel \/ RsCancel) =>
              (FunctionList' = FunctionList /\ ~run'.published)
       /\ FunctionList' # FunctionList =>
              /\ Form \in {"gap", "resample"}
              /\ Form' = "none"
              /\ run'.err = ""
              /\ run'.new_points # <<>>]_vars

\* a decimation with the IIR filter of a 10-point series failed
C14_Witness ==
    /\ RsRan
    /\ run.path = "decimate"
    /\ run.err # ""
    /\ shown = run.err
    /\ FunctionList = <<GapSignal(MinGapPoints), ShortSignal, OnePoint>>

(***************************************************************************)
(* C15: a successful gap fill or resample appends exactly one series at    *)
(* the end of the function list and leaves every earlier entry, the        *)
(* selected series among them, unchanged.                                  *)
(***************************************************************************)
C15_SuccessAppendsOne ==
    [][(run'.published /\ Form \in {"gap", "resample"} /\ Form' = "none") =>
           /\ Len(FunctionList') = Len(FunctionList) + 1
           /\ SubSeq(FunctionList', 1, Len(FunctionList)) = FunctionList
           /\ FunctionList'[Selected] = FunctionList[Selected]
           /\ FunctionList'[Len(FunctionList')].Points = run'.new_points
           /\ Selected' = Selected]_vars

\* a fill of the 10-point signal was published as the fourth series
C15_Witness ==
    /\ GapDone
    /\ run.src = 1
    /\ Len(FunctionList) = 4
    /\ SubSeq(FunctionList, 1, 3) = <<GapSignal(MinGapPoints), ShortSignal, OnePoint>>
    /\ FunctionList[4].Points = run.new_points
    /\ FunctionList[4].Points # FunctionList[1].Points

(***************************************************************************)
(* C16: the gap filler invoked on a series of fewer than 10 points, and    *)
(* the resampler on one of fewer than 2 points, shows an error, opens no   *)
(* form and publishes nothing; every fill runs on a series of at least 10  *)
(* points and every resample on one of at least 2.                         *)
(***************************************************************************)
C16_MinimumLength ==
    [][/\ (spectral_interpolation /\ Selected # 0
               /\ Len(FunctionList[Selected].Points) < 10) =>
              /\ shown' = "The series must have at least 10 points."
              /\ Form' = "none"
              /\ run' = NoRun
              /\ FunctionList' = FunctionList
       /\ (resample_series /\ Selected # 0
               /\ Len(FunctionList[Selected].Points) < 2) =>
              /\ shown' = "The series must have at least 2 points."
              /\ Form' = "none"
              /\ run' = NoRun
              /\ FunctionList' = FunctionList
       /\ Form' = "gap" => Len(FunctionList'[Selected'].Points) >= 10
       /\ Form' = "resample" => Len(FunctionList'[Selected'].Points) >= 2
       /\ run'.plugin = "gap" => Len(FunctionList'[run'.src].Points) >= 10
       /\ run'.plugin = "resample" =>
              Len(FunctionList'[run'.src].Points) >= 2]_vars

\* the gap filler was invoked on the 4-point series and refused it
C16_Witness ==
    /\ Form = "none"
    /\ Selected = 2
    /\ Len(FunctionList[Selected].Points) \in 2..9
    /\ shown = "The series must have at least 10 points."
    /\ run = NoRun
    /\ FunctionList = <<GapSignal(MinGapPoints), ShortSignal, OnePoint>>

(***************************************************************************)
(* C17: for every gap of at least 2 samples the tapered correction has     *)
(* weight 1 / 0 at the first written sample and 0 / 1 at the last, so the  *)
(* first written sample result[idx_a] is the first interior point of the   *)
(* ramp and the last written sample result[idx_b - 1] its last interior    *)
(* point (values are exact rationals).                                     *)
(***************************************************************************)
C17_TaperCorrection ==
    GapDone =>
        \E g \in {run.gap_size} : \E t \in {Linspace(R(0), R(1), g)} :
            /\ g >= 2
            /\ Len(run.interpolated) = g
            /\ Len(run.line_data) = g
            /\ RSub(R(1), t[1]) = R(1) /\ t[1] = R(0)
            /\ RSub(R(1), t[g]) = R(0) /\ t[g] = R(1)
            /\ run.interpolated[1] = run.line_data[1]
            /\ run.interpolated[g] = run.line_data[g]
            /\ At(run.y_result, run.idx_a) = run.line_data[1]
            /\ At(run.y_result, run.idx_b - 1) = run.line_data[g]
            /\ At(GapOutput.Points, run.idx_a).y = run.line_data[1]
            /\ At(GapOutput.Points, run.idx_b - 1).y = run.line_data[g]

\* a fill whose detrended spectral segment was off the ramp at both ends
C17_Witness ==
    /\ GapDone
    /\ run.gap_size >= 3
    /\ \E mixed \in {Detrend(Ifft(GapSpectrum(run.mode_idx, run.segment_pre,
                                              run.segment_post)))} :
           /\ mixed[1] # R(0)
           /\ mixed[run.gap_size] # R(0)
    /\ At(GapOutput.Points, run.idx_a).y = run.line_data[1]
    /\ At(GapOutput.Points, run.idx_b - 1).y = run.line_data[run.gap_size]

(***************************************************************************)
(* C18 as claimed: in every successful fill the ramp is anchored at        *)
(* y[idx_a - 1] and y[idx_b], samples outside the gap.                     *)
(***************************************************************************)
C18_Ramp(y_a, y_b, g) ==
    [i \in 1..g |-> RAdd(y_a, RDiv(RMul(RSub(y_b, y_a), R(i)), R(g + 1)))]

C19_Resolved == GapValidated /\ run.err \notin InsufficientErrors

C19_ContextSegments ==
    C19_Resolved =>
        \E y \in {SeriesY(GapInput)} : \E g \in {run.gap_size} :
            /\ GapDone
            /\ g = run.idx_b - run.idx_a
            /\ IF run.mode_idx \in {ModeAverage, ModeWeighted, ModePre}
               THEN /\ Len(run.segment_pre) = g
                    /\ \A i \in 1..g :
                        \E k \in {run.idx_a - g + i - 1} :
                            /\ k \in 0..(Len(y) - 1)
                            /\ k \notin run.idx_a..(run.idx_b - 1)
                            /\ run.segment_pre[i] = At(y, k)
               ELSE run.segment_pre = <<>>
            /\ IF run.mode_idx \in {ModeAverage, ModeWeighted, ModePost}
               THEN /\ Len(run.segment_post) = g
                    /\ \A i \in 1..g :
                        \E k \in {run.idx_b + i - 1} :
                            /\ k \in 0..(Len(y) - 1)
                            /\ k \notin run.idx_a..(run.idx_b - 1)
                            /\ run.segment_post[i] = At(y, k)
               ELSE run.segment_post = <<>>

\* an Average fill whose pre segment starts at the first sample
C19_Witness ==
    /\ GapDone
    /\ run.mode_idx = ModeAverage
    /\ run.idx_a - run.gap_size = 0
    /\ Len(run.segment_pre) = run.gap_size
    /\ Len(run.segment_post) = run.gap_size
    /\ run.segment_pre # run.segment_post

C21_SingleSideNoFallback ==
    GapValidated =>
        /\ (run.requested = ModePre /\ ~PreAvailable) =>
              /\ run.err = "Insufficient data before the gap"
              /\ run.mode_idx = ModePre
              /\ ~run.published
              /\ run.new_points = <<>>
              /\ shown = run.err
        /\ (run.requested = ModePost /\ ~PostAvailable) =>
              /\ run.err = "Insufficient data after the gap"
              /\ run.mode_idx = ModePost
              /\ ~run.published
              /\ run.new_points = <<>>
              /\ shown = run.err

\* Pre-gap only was asked for, only the post side had enough samples
C21_Witness ==
    /\ GapValidated
    /\ run.requested = ModePre
    /\ ~PreAvailable
    /\ PostAvailable
    /\ run.err = "Insufficient data before the gap"
    /\ Len(FunctionList) = 3

(***************************************************************************)
(* C22 as claimed: a click on the enabled Interpolate button always ends   *)
(* in a published fill.                                                    *)
(***************************************************************************)
C22_DialogAgreesClaimed ==
    GapRan => (run.err = "" /\ run.published)

(***************************************************************************)
(* C22: a click on the enabled Interpolate button runs with numbers        *)
(* Xa < Xb, so the range error is never raised, and with a side that holds *)
(* the estimated gap size int((xb - xa) / Ts); the gap-size error is       *)
(* still raised when idx_b - idx_a < 2, and an insufficient-data error     *)
(* when the selected single side is short or when idx_b - idx_a is larger  *)
(* than the estimate on both sides.                                        *)
(***************************************************************************)
C22_Estimate ==
    PyInt(RDiv(RSub(run.xb, run.xa), MeanDiff(SeriesX(GapInput))))

C22_DialogAdmits ==
    GapRan =>
        /\ IsNumber(run.xa) /\ IsNumber(run.xb)
        /\ RLt(run.xa, run.xb)
        /\ \/ GapIdxA >= C22_Estimate
           \/ Len(GapInput.Points) - GapIdxB >= C22_Estimate
        /\ run.err \in {"", "Gap must contain at least 2 points"}
                           \cup InsufficientErrors
        /\ run.published <=> run.err = ""
        /\ run.err = "Gap must contain at least 2 points" <=> GapSizeOf < 2
        /\ run.err = "Insufficient data on both sides of the gap" =>
               /\ run.requested \in {ModeAverage, ModeWeighted}
               /\ C22_Estimate < GapSizeOf
        /\ run.err = "Insufficient data before the gap" =>
               (run.requested = ModePre /\ ~PreAvailable)
        /\ run.err = "Insufficient data after the gap" =>
               (run.requested = ModePost /\ ~PostAvailable)

\* the form counted 3 points in the gap and enough on a side; the gap holds
\* more samples than either side and the Average fill was refused
C22_Witness ==
    /\ GapRan
    /\ run.requested = ModeAverage
    /\ run.err = "Insufficient data on both sides of the gap"
    /\ C22_Estimate < GapSizeOf
    /\ shown = run.err

(***************************************************************************)
(* C23 as claimed: on the decimation path the output x values are          *)
(* q * current_period apart.                                               *)
(***************************************************************************)
C23_SpacingClaimed ==
    (RsDone /\ run.path = "decimate") =>
        \A i \in 1..(Len(RsGrid) - 1) :
            RSub(RsGrid[i + 1], RsGrid[i]) = RMul(R(run.q), run.current_period)

(***************************************************************************)
(* C23: on the decimation path q is new_period / current_period rounded to *)
(* a nearest integer and raised to 2 when that is less than 2, so q >= 2.  *)
(* Consecutive output x values are q input samples apart; that distance is *)
(* q * current_period when the input is evenly spaced (current_period is   *)
(* the mean spacing of the input).                                         *)
(***************************************************************************)
C23_Even(x) ==
    \A j \in 1..(Len(x) - 1) : RSub(x[j + 1], x[j]) = MeanDiff(x)

C23_DecimationFactor ==
    (RsRan /\ run.path = "decimate") =>
        \E x \in {SeriesX(RsInput)} :
        \E ratio \in {RDiv(run.new_period, run.current_period)} :
        \E nearest \in {PyRound(ratio)} :
            /\ run.current_period = MeanDiff(x)
            /\ RLe(RSub(R(nearest), ratio), Frac(1, 2))
            /\ RLe(RSub(ratio, R(nearest)), Frac(1, 2))
            /\ run.q = (IF nearest < 2 THEN 2 ELSE nearest)
            /\ run.q >= 2
            /\ run.published =>
                  \A i \in 1..(Len(RsGrid) - 1) :
                      /\ RsGrid[i] = x[q_index(i)]
                      /\ RsGrid[i + 1] = x[q_index(i) + run.q]
                      /\ C23_Even(x) =>
                            RSub(RsGrid[i + 1], RsGrid[i])
                                = RMul(R(run.q), run.current_period)

\* the unevenly spaced series decimated by 2: x = 0, 3, 6, 9, mean spacing 12/7
C23_Witness ==
    /\ RsDone
    /\ run.path = "decimate"
    /\ ~C23_Even(SeriesX(RsInput))
    /\ run.q = 2
    /\ Len(RsGrid) = 4
    /\ RSub(RsGrid[2], RsGrid[1]) # RMul(R(run.q), run.current_period)

(***************************************************************************)
(* C24: the x and y sequences a resample publishes have the same length    *)
(* and pairing them drops no value; on the decimation path the output x    *)
(* are the input x at the indices 0, q, 2q, ... below n, as many as the    *)
(* decimated y has samples.                                                *)
(***************************************************************************)
C24_OutputPairing ==
    RsDone =>
        \E x \in {SeriesX(RsInput)} :
            /\ Len(RsOutput.Points) = Len(run.x_new)
            /\ Len(RsOutput.Points) = run.y_len
            /\ SeriesX(RsOutput) = run.x_new
            /\ run.path = "decimate" =>
                  /\ run.y_len = DecimateLen(Len(x), run.q)
                  /\ Len(run.x_new)
                         = Cardinality({k \in 0..(Len(x) - 1) : k % run.q = 0})
                  /\ \A i \in 0..(Len(run.x_new) - 1) :
                         At(run.x_new, i) = At(x, i * run.q)
            /\ run.path = "interp" =>
                  run.x_new = GridPoints(SeqMin(x), SeqMax(x), run.new_period)

\* 30 samples decimated by 4: the 8 samples at 0, 4, .., 28
C24_Witness ==
    /\ RsDone
    /\ run.path = "decimate"
    /\ Len(RsInput.Points) % run.q # 0
    /\ run.q = 4
    /\ Len(RsOutput.Points) = 8
    /\ At(RsOutput.Points, 7).x = At(RsInput.Points, 28).x

(***************************************************************************)
(* C25 as claimed: the grid of the interpolation path has exactly          *)
(* floor(range / new_period) + 1 points.                                   *)
(***************************************************************************)
C25_Ratio == RDiv(RSub(RsXMax, RsXMin), run.new_period)

C25_GridLengthClaimed ==
    (RsDone /\ run.path = "interp") =>
        Len(run.x_new) = Floor(C25_Ratio) + 1

(***************************************************************************)
(* C25: the grid arange(x_min, x_max + new_period/2, new_period) has       *)
(* ceil(range / new_period + 1/2) points: floor(range / new_period) + 1    *)
(* when the fractional part of range / new_period is at most 1/2, and one  *)
(* more when it is above 1/2.  In the period and frequency modes the form  *)
(* previews floor(range / new_period) + 1 whenever the value or the mode   *)
(* is edited (a form just opened shows the number of input points).        *)
(***************************************************************************)
C25_GridPoints ==
    (RsDone /\ run.path = "interp") =>
        \E r \in {C25_Ratio} : \E frac \in {RSub(r, R(Floor(r)))} :
            /\ RGt(r, R(0))
            /\ Len(run.x_new) = Ceil(RAdd(r, Frac(1, 2)))
            /\ Len(run.x_new) = Floor(r) + (IF RLe(frac, Frac(1, 2)) THEN 1 ELSE 2)
            /\ Len(RsOutput.Points) = Len(run.x_new)

C25_Preview ==
    [][(/\ RsEditValue \/ RsSelectMode
        /\ IsNumber(rsDlg'.edt_value)
        /\ RGt(rsDlg'.edt_value, R(0))
        /\ rsDlg'.cmb_mode \in {RsModePeriod, RsModeFrequency})
         => \E x \in {SeriesX(FunctionList[Selected])} :
            \E P \in {IF rsDlg'.cmb_mode = RsModePeriod THEN rsDlg'.edt_value
                      ELSE RDiv(R(1), rsDlg'.edt_value)} :
                rsDlg'.new_count
                    = Floor(RDiv(RSub(SeqMax(x), SeqMin(x)), P)) + 1]_vars

C25_GridLength == []C25_GridPoints /\ C25_Preview

\* range 29 resampled with period 5: 7 points, 0, 5, .., 30, where
\* floor(29 / 5) + 1 = 6
C25_Witness ==
    /\ RsDone
    /\ run.path = "interp"
    /\ run.new_period = R(5)
    /\ RSub(RsXMax, RsXMin) = R(29)
    /\ Len(RsOutput.Points) = 7
    /\ Floor(C25_Ratio) + 1 = 6


(***************************************************************************)
(* wfgen/AIFunctionGenerator: the API key is looked up in the session key  *)
(* and in the .env key; the dialog asks OpenAI for a function definition   *)
(* and Accept adds it to Graph.FunctionList.  The variable Form is "key"   *)
(* while request_api_key_dialog is open from generate_function_dialog,     *)
(* "ai" while the generator form is open and idle, and "rekey" while       *)
(* on_generate_click waits in request_api_key_dialog after an              *)
(* authentication error.                                                   *)
(***************************************************************************)

\* values of OPENAI_API_KEY after load_dotenv (line 28)
EnvKeys == {"", "your-api-key-here", "sk-env"}

\* texts the user leaves in edt_key when OK is clicked
KeyTexts == {"", "   ", "abc", "sk-user", " sk-user ", "sk-env"}

\* texts the user leaves in memo_prompt
PromptTexts == {"", "   ", "a sine wave"}

\* str.strip() on the texts above
Strip(t) ==
    CASE t = "   " -> ""
      [] t = " sk-user " -> "sk-user"
      [] OTHER -> t

\* str.startswith('sk-') on the texts above
StartsWithSk(t) == t \in {"sk-user", "sk-env", " sk-user "} /\ t = Strip(t)

\* truth value of a key or text: None and "" are false
Truthy(k) == k \notin {PyNone, ""}

\* what the API call and the parsing of lines 598-694 end with: a parsed
\* FunctionDefinition (standard, parametric, or one whose equation Graph
\* rejects), an exception classified as authentication error by line 729,
\* or any other exception
Definitions == {"standard", "parametric", "invalid"}
ApiOutcomes == Definitions \cup {"auth", "other"}

MaxGenerations == 3

GetApiKeyIgnoresMark(a) ==
    IF Truthy(a.session_api_key) THEN a.session_api_key
    ELSE IF a.OPENAI_API_KEY # "" /\ a.OPENAI_API_KEY # "your-api-key-here"
    THEN a.OPENAI_API_KEY
    ELSE PyNone

\* lines 54-62
get_api_key(a) ==
    IF Truthy(a.session_api_key) THEN a.session_api_key
    ELSE IF ~a.env_key_invalid /\ a.OPENAI_API_KEY # ""
            /\ a.OPENAI_API_KEY # "your-api-key-here"
    THEN a.OPENAI_API_KEY
    ELSE PyNone

\* lines 64-67
set_session_api_key(a, key) ==
    [a EXCEPT !.session_api_key = key,
              !.entered_after = (key # PyNone /\ a.auth_failed)]

\* lines 69-72
mark_env_key_invalid(a) == [a EXCEPT !.env_key_invalid = TRUE]

\* lines 555-573: the controls of a freshly built generator form
NewAiForm(a) ==
    [a EXCEPT !.memo_prompt = "", !.result_data = PyNone,
              !.btn_accept_Enabled = FALSE, !.btn_generate_Enabled = TRUE]

AuthFailureNoMark(a) ==
    [set_session_api_key(a, PyNone) EXCEPT !.auth_failed = TRUE,
                                           !.entered_after = FALSE]

\* lines 731-734: the session key is cleared and the .env key marked
AuthFailure(a) ==
    [mark_env_key_invalid(set_session_api_key(a, PyNone))
        EXCEPT !.auth_failed = TRUE, !.entered_after = FALSE]

GenerateFailedKeepsAccept(a) ==
    [a EXCEPT !.result_data = PyNone, !.btn_generate_Enabled = TRUE]

\* lines 744-748: the end of the except branch and the finally clause
GenerateFailed(a) ==
    [a EXCEPT !.result_data = PyNone, !.btn_accept_Enabled = FALSE,
              !.btn_generate_Enabled = TRUE]

\* lines 694-718, 748: a parsed definition is stored and Accept enabled
GenerateSucceeded(a, d) ==
    [a EXCEPT !.result_data = d, !.btn_accept_Enabled = TRUE,
              !.btn_generate_Enabled = TRUE,
              !.generations = a.generations + 1]

\* lines 372-391 up to the point where the key dialog or the form is shown
generate_function_dialog ==
    /\ Form = "none"
    /\ IF ~ai.HAS_OPENAI
       THEN /\ shown' = "The 'openai' module is not installed."
            /\ UNCHANGED <<Form, ai>>
       ELSE IF Truthy(get_api_key(ai))
       THEN /\ Form' = "ai"
            /\ ai' = NewAiForm(ai)
            /\ shown' = ""
       ELSE /\ Form' = "key"
            /\ shown' = ""
            /\ UNCHANGED ai
    /\ UNCHANGED <<FunctionList, Selected, gapDlg, rsDlg, run, pm>>

\* lines 340-350: OK in request_api_key_dialog; a returned key is stored by
\* line 391 (first invocation) or line 737 (after an authentication error,
\* where lines 744-748 then finish on_generate_click)
on_ok_click ==
    /\ Form \in {"key", "rekey"}
    /\ \E text \in KeyTexts :
       \E key \in {Strip(text)} :
         IF Truthy(key) /\ StartsWithSk(key)
         THEN /\ Form' = "ai"
              /\ ai' = IF Form = "key"
                       THEN NewAiForm(set_session_api_key(ai, key))
                       ELSE GenerateFailed(set_session_api_key(ai, key))
              /\ shown' = ""
         ELSE /\ shown' = "Please enter a valid OpenAI API key."
              /\ UNCHANGED <<Form, ai>>
    /\ UNCHANGED <<FunctionList, Selected, gapDlg, rsDlg, run, pm>>

\* btn_cancel of request_api_key_dialog (ModalResult 2): line 390 returns,
\* lines 739-748 close the generator form
KeyCancel ==
    /\ Form \in {"key", "rekey"}
    /\ Form' = "none"
    /\ ai' = IF Form = "key" THEN ai ELSE NewAiForm(GenerateFailed(ai))
    /\ UNCHANGED <<FunctionList, Selected, gapDlg, rsDlg, shown, run, pm>>

\* the user types into memo_prompt
EditPrompt ==
    /\ Form = "ai"
    /\ \E t \in PromptTexts : ai' = [ai EXCEPT !.memo_prompt = t]
    /\ UNCHANGED <<FunctionList, Selected, Form, gapDlg, rsDlg, shown, run, pm>>

\* lines 585-750
on_generate_click ==
    /\ Form = "ai"
    /\ ai.btn_generate_Enabled
    /\ IF ~Truthy(Strip(ai.memo_prompt))
       THEN /\ shown' = "Please enter a function description."
            /\ UNCHANGED <<Form, ai>>
       ELSE \E outcome \in ApiOutcomes :
            IF outcome \in Definitions
            THEN /\ ai.generations < MaxGenerations
                 /\ ai' = GenerateSucceeded(ai, outcome)
                 /\ shown' = ""
                 /\ UNCHANGED Form
            ELSE IF outcome = "auth"
            THEN /\ shown' = "Authentication error. Please verify your API key."
                 /\ ai' = [AuthFailure(ai) EXCEPT !.btn_generate_Enabled = FALSE]
                 /\ Form' = "rekey"
            ELSE /\ shown' = "Error generating function"
                 /\ ai' = GenerateFailed(ai)
                 /\ UNCHANGED Form
    /\ UNCHANGED <<FunctionList, Selected, gapDlg, rsDlg, run, pm>>

\* lines 752-787
on_accept_click ==
    /\ Form = "ai"
    /\ ai.btn_accept_Enabled
    /\ IF ai.result_data = PyNone
       THEN UNCHANGED <<FunctionList, Form, ai, shown>>
       ELSE IF ai.result_data = "invalid"
       THEN /\ shown' = "Error creating function"
            /\ UNCHANGED <<FunctionList, Form, ai>>
       ELSE /\ FunctionList' = Append(FunctionList,
                                  [Points |-> <<>>,
                                   LegendText |-> <<ai.result_data>>])
            /\ ai' = NewAiForm(ai)
            /\ Form' = "none"
            /\ shown' = ""
    /\ UNCHANGED <<Selected, gapDlg, rsDlg, run, pm>>

\* btn_close (ModalResult 2) of the generator form
AiClose ==
    /\ Form = "ai"
    /\ Form' = "none"
    /\ ai' = NewAiForm(ai)
    /\ UNCHANGED <<FunctionList, Selected, gapDlg, rsDlg, shown, run, pm>>

InitAI ==
    /\ FunctionList = <<>>
    /\ Selected = 0
    /\ Form = "none"
    /\ gapDlg = NoGapDlg
    /\ rsDlg = NoRsDlg
    /\ shown = ""
    /\ run = NoRun
    /\ \E has \in BOOLEAN, env \in EnvKeys :
         ai = [NoAi EXCEPT !.HAS_OPENAI = has, !.OPENAI_API_KEY = env]
    /\ pm = NoPm

NextAI ==
    \/ generate_function_dialog
    \/ on_ok_click
    \/ KeyCancel
    \/ EditPrompt
    \/ on_generate_click
    \/ on_accept_click
    \/ AiClose

SpecAI == InitAI /\ [][NextAI]_vars


\* the .env key cannot be returned by get_api_key: it is empty, the
\* placeholder of .env.example, or marked invalid
EnvKeyUnusable(a) ==
    \/ a.OPENAI_API_KEY = ""
    \/ a.OPENAI_API_KEY = "your-api-key-here"
    \/ a.env_key_invalid

\* C26: in every state reachable through generate_function_dialog and its
\* handlers a session API key is set only if the .env key is unusable
\* (empty, the placeholder, or marked invalid); and a step that marks a
\* usable .env key invalid is taken only when no session key is set, that
\* is, when the .env key was the key get_api_key returned.
C26_SessionKeyOnlyIfEnvUnusable ==
    Truthy(ai.session_api_key) => EnvKeyUnusable(ai)

C26_MarkOnlyKeyInUse ==
    [][(~EnvKeyUnusable(ai) /\ ai'.env_key_invalid)
         => /\ ~Truthy(ai.session_api_key)
            /\ get_api_key(ai) = ai.OPENAI_API_KEY]_vars

C26_KeyStateInvariant ==
    []C26_SessionKeyOnlyIfEnvUnusable /\ C26_MarkOnlyKeyInUse

\* a session key typed after the .env key "sk-env" failed to authenticate
C26_Witness ==
    /\ Form = "ai"
    /\ ai.OPENAI_API_KEY = "sk-env"
    /\ ai.env_key_invalid
    /\ ai.session_api_key = "sk-user"


\* C27: an authentication failure clears the session key and marks the
\* .env key invalid, and the mark is never reset; from then on get_api_key
\* returns the session key or None, never reading the .env key, and it
\* returns a key only if the user entered one after the failure; cancelling
\* the re-entry dialog closes the generator form with no key left, and the
\* next invocation of generate_function_dialog opens the key dialog again.
C27_FailureClearsAndMarks ==
    [][(Form = "ai" /\ Form' = "rekey")
         => /\ ai'.session_api_key = PyNone
            /\ ai'.env_key_invalid
            /\ ai'.auth_failed]_vars

C27_MarkNeverReset ==
    [][ai.env_key_invalid => ai'.env_key_invalid]_vars

C27_OnlyNewKeys ==
    ai.auth_failed =>
        /\ ai.env_key_invalid
        /\ get_api_key(ai) = ai.session_api_key
        /\ Truthy(get_api_key(ai)) => ai.entered_after

C27_CancelCloses ==
    [][(Form = "rekey" /\ KeyCancel)
         => /\ Form' = "none"
            /\ get_api_key(ai') = PyNone]_vars

C27_NextInvocationAsks ==
    [][(ai.auth_failed /\ ~ai.entered_after /\ generate_function_dialog)
         => Form' = "key"]_vars

C27_AfterAuthenticationFailure ==
    /\ C27_FailureClearsAndMarks
    /\ C27_MarkNeverReset
    /\ []C27_OnlyNewKeys
    /\ C27_CancelCloses
    /\ C27_NextInvocationAsks

\* the key dialog of a new invocation, after the .env key "sk-env" failed
\* and the user cancelled the re-entry
C27_Witness ==
    /\ Form = "key"
    /\ ai.auth_failed
    /\ ai.OPENAI_API_KEY = "sk-env"
    /\ ai.session_api_key = PyNone


\* C28: whenever the generator form is open and no handler is running, the
\* Accept button is enabled exactly when a generated definition is stored
\* in result_data and the Generate button is enabled; a step adds a
\* function to the graph only when a definition is stored, adds exactly
\* one and clears the stored definition, so that no more functions are
\* added than generations succeeded.
C28_ButtonsMatchResult ==
    Form = "ai" =>
        /\ ai.btn_accept_Enabled <=> (ai.result_data # PyNone)
        /\ ai.btn_generate_Enabled

C28_AddedAtMostOnce ==
    Len(FunctionList) <= ai.generations

C28_AcceptAddsStored ==
    [][FunctionList' # FunctionList
         => /\ ai.result_data # PyNone
            /\ Len(FunctionList') = Len(FunctionList) + 1
            /\ ai'.result_data = PyNone]_vars

C28_DialogInvariant ==
    /\ []C28_ButtonsMatchResult
    /\ []C28_AddedAtMostOnce
    /\ C28_AcceptAddsStored

\* two of three generated definitions were accepted, each in its own
\* session of the form
C28_Witness ==
    /\ Len(FunctionList) = 2
    /\ ai.generations = 3
    /\ Form = "none"
    /\ shown = ""


(***************************************************************************)
(* PluginManager: plugins are mounted and unmounted by renaming files.  A  *)
(* path is <<directory, stem, suffix>>; the Plugins directory is Root and  *)
(* holds the packages PluginManager, common and pkgA and the single-file   *)
(* plugin foo.  pm.files is the set of files that exist, the directories   *)
(* always exist.  node_data is indexed by AbsoluteIndex + 1, Selected = 0  *)
(* is TreeView.Selected = None.                                            *)
(***************************************************************************)
Root == ""

Path(dir, stem, suffix) == <<dir, stem, suffix>>

PmDirs == {Path(Root, "PluginManager", ""), Path(Root, "common", ""),
           Path(Root, "pkgA", "")}

\* lines 16-19, the names that occur here
EXCLUDED_DIRS == {"__pycache__", "common", "docs"}

\* lines 22-26, the names that occur here
EXCLUDED_FILES == {<<"__init__", ".py">>, <<"__init__", ".pyc">>,
                   <<"README", ".md">>}

\* sorted(os.listdir(base_dir)) over every name that can exist, in the
\* order of Python's string comparison
Listing(base) ==
    CASE base = Root ->
           <<Path(Root, "PluginManager", ""), Path(Root, "README", ".md"),
             Path(Root, "common", ""), Path(Root, "foo", ".py"),
             Path(Root, "foo", ".py.disabled"), Path(Root, "pkgA", "")>>
      [] base = "pkgA" ->
           <<Path("pkgA", "__init__", ".py"),
             Path("pkgA", "__init__", ".py.disabled"),
             Path("pkgA", "__init__", ".pyc"),
             Path("pkgA", "helper", ".py"),
             Path("pkgA", "helper", ".py.disabled")>>
      [] OTHER -> <<Path(base, "__init__", ".py")>>

isdir(path) == path \in PmDirs

exists(files, path) == path \in files \/ path \in PmDirs

\* os.path.join(plugin_path, name) for a package directly under Root
join(plugin_path, stem, suffix) == Path(plugin_path[2], stem, suffix)

\* plugin_path + ".disabled"
Disabled(plugin_path) ==
    Path(plugin_path[1], plugin_path[2], ".py.disabled")

listdir(files, base) ==
    SelectSeq(Listing(base), LAMBDA p : exists(files, p))

\* lines 34-46
is_plugin_mounted(files, plugin_path) ==
    IF isdir(plugin_path)
    THEN \/ exists(files, join(plugin_path, "__init__", ".py"))
         \/ exists(files, join(plugin_path, "__init__", ".pyc"))
    ELSE plugin_path[3] = ".py" /\ exists(files, plugin_path)

\* os.rename on Windows, the platform of Graph: FileExistsError when the
\* destination exists
rename(files, src, dst) ==
    IF exists(files, dst)
    THEN [files |-> files, success |-> FALSE, raised |-> TRUE]
    ELSE [files |-> (files \ {src}) \cup {dst}, success |-> TRUE,
          raised |-> FALSE]

Failed(files) == [files |-> files, success |-> FALSE, raised |-> FALSE]

\* lines 62-80
mount_plugin(files, plugin_path) ==
    IF isdir(plugin_path)
    THEN IF exists(files, join(plugin_path, "__init__", ".py.disabled"))
         THEN rename(files, join(plugin_path, "__init__", ".py.disabled"),
                     join(plugin_path, "__init__", ".py"))
         ELSE Failed(files)
    ELSE IF exists(files, Disabled(plugin_path))
         THEN rename(files, Disabled(plugin_path), plugin_path)
         ELSE Failed(files)

\* lines 83-99
unmount_plugin(files, plugin_path) ==
    IF isdir(plugin_path)
    THEN IF exists(files, join(plugin_path, "__init__", ".py"))
         THEN rename(files, join(plugin_path, "__init__", ".py"),
                     join(plugin_path, "__init__", ".py.disabled"))
         ELSE Failed(files)
    ELSE IF exists(files, plugin_path) /\ plugin_path[3] = ".py"
         THEN rename(files, plugin_path, Disabled(plugin_path))
         ELSE Failed(files)

\* lines 102-109
is_plugin_dir(files, path) ==
    /\ isdir(path)
    /\ \/ exists(files, join(path, "__init__", ".py"))
       \/ exists(files, join(path, "__init__", ".pyc"))
       \/ exists(files, join(path, "__init__", ".py.disabled"))

\* lines 112-124; "__init__" is the only stem here that starts with "_"
is_single_file_plugin(filepath) ==
    IF <<filepath[2], filepath[3]>> \in EXCLUDED_FILES THEN FALSE
    ELSE IF filepath[2] = "__init__" /\ filepath[3] = ".py.disabled" THEN FALSE
    ELSE IF filepath[3] = ".py" /\ filepath[2] # "__init__" THEN TRUE
    ELSE IF filepath[3] = ".py.disabled" /\ filepath[2] # "__init__" THEN TRUE
    ELSE FALSE

RECURSIVE scan_plugins(_, _), ScanEntries(_, _, _)

\* lines 127-187; the items come in the order in which _add_nodes (lines
\* 307-320) numbers the nodes: an item, its children, its next sibling
scan_plugins(files, base_dir) == ScanEntries(files, listdir(files, base_dir), 1)

\* lines 139-185: the loop over the entries, from entry i on
ScanEntries(files, entries, i) ==
    IF i > Len(entries) THEN <<>>
    ELSE LET full_path == entries[i]
             rest == ScanEntries(files, entries, i + 1)
         IN  IF full_path[3] = "" /\ full_path[2] \in EXCLUDED_DIRS THEN rest
             ELSE IF isdir(full_path)
             THEN IF is_plugin_dir(files, full_path)
                  THEN <<[name |-> full_path[2], path |-> full_path,
                          is_dir |-> TRUE,
                          mounted |-> is_plugin_mounted(files, full_path)]>>
                       \o scan_plugins(files, full_path[2]) \o rest
                  ELSE rest
             ELSE IF is_single_file_plugin(full_path)
             THEN <<[name |-> full_path[2],
                     path |-> Path(full_path[1], full_path[2], ".py"),
                     is_dir |-> FALSE,
                     mounted |-> (full_path[3] = ".py")]>> \o rest
             ELSE rest

\* lines 295-305
Refresh(p) ==
    [p EXCEPT !.node_data = scan_plugins(p.files, Root), !.Selected = 0]

toggle_nodeUnguarded(p, node) ==
    LET item == p.node_data[node]
        r == IF item.mounted THEN unmount_plugin(p.files, item.path)
             ELSE mount_plugin(p.files, item.path)
    IN  IF r.raised THEN [pm |-> p, msg |-> "FileExistsError"]
        ELSE IF r.success
        THEN [pm |-> [p EXCEPT !.files = r.files,
                               !.node_data[node].mounted = ~item.mounted,
                               !.changes_made = TRUE],
              msg |-> ""]
        ELSE [pm |-> p, msg |-> ""]

\* lines 355-387: the new state of the dialog and the message shown
toggle_node(p, node) ==
    LET item == p.node_data[node]
        r == IF item.mounted THEN unmount_plugin(p.files, item.path)
             ELSE mount_plugin(p.files, item.path)
    IN  IF item.name = "PluginManager"
        THEN [pm |-> p, msg |-> "Cannot unmount the Plugin Manager itself."]
        ELSE IF r.raised THEN [pm |-> p, msg |-> "FileExistsError"]
        ELSE IF r.success
        THEN [pm |-> [p EXCEPT !.files = r.files,
                               !.node_data[node].mounted = ~item.mounted,
                               !.changes_made = TRUE],
              msg |-> ""]
        ELSE [pm |-> p, msg |-> ""]

\* lines 449-452, 190-291
ShowPluginManager ==
    /\ Form = "none"
    /\ Form' = "pm"
    /\ pm' = Refresh([NoPm EXCEPT !.files = pm.files])
    /\ shown' = ""
    /\ UNCHANGED <<FunctionList, Selected, gapDlg, rsDlg, run, ai>>

\* lines 335-347: a click on a node selects it; a click beside the nodes
\* leaves the selection as it is
OnTreeClick ==
    /\ Form = "pm"
    /\ \E node \in (1..Len(pm.node_data)) \cup {pm.Selected} :
         pm' = IF node # 0
               THEN [pm EXCEPT !.Selected = node,
                               !.LblPath = pm.node_data[node].path,
                               !.BtnToggle_Enabled = TRUE]
               ELSE [pm EXCEPT !.BtnToggle_Enabled = FALSE]
    /\ UNCHANGED <<FunctionList, Selected, Form, gapDlg, rsDlg, shown, run, ai>>

\* lines 349-353
OnToggle ==
    /\ Form = "pm"
    /\ pm.BtnToggle_Enabled
    /\ IF pm.Selected # 0
       THEN \E r \in {toggle_node(pm, pm.Selected)} :
              /\ pm' = r.pm
              /\ shown' = r.msg
       ELSE UNCHANGED <<pm, shown>>
    /\ UNCHANGED <<FunctionList, Selected, Form, gapDlg, rsDlg, run, ai>>

\* lines 329-333
OnTreeDblClick ==
    /\ Form = "pm"
    /\ IF pm.Selected # 0
       THEN \E r \in {toggle_node(pm, pm.Selected)} :
              /\ pm' = r.pm
              /\ shown' = r.msg
       ELSE UNCHANGED <<pm, shown>>
    /\ UNCHANGED <<FunctionList, Selected, Form, gapDlg, rsDlg, run, ai>>

\* lines 389-434 for the file foo.py picked from another folder, the
\* user's plugin folder being the folder the Plugin Manager scans: the
\* file dialog is cancelled, the overwrite is declined, or the file is
\* copied and the tree rebuilt
OnImport ==
    /\ Form = "pm"
    /\ \E choice \in {"cancel", "no", "copy"} :
         IF choice = "cancel"
            \/ (choice = "no" /\ exists(pm.files, Path(Root, "foo", ".py")))
         THEN UNCHANGED pm
         ELSE pm' = Refresh([pm EXCEPT
                               !.files = pm.files \cup {Path(Root, "foo", ".py")}])
    /\ UNCHANGED <<FunctionList, Selected, Form, gapDlg, rsDlg, shown, run, ai>>

\* lines 436-446: the form is closed
PmClose ==
    /\ Form = "pm"
    /\ Form' = "none"
    /\ shown' = IF pm.changes_made
                THEN "Plugin changes have been saved."
                ELSE shown
    /\ pm' = [NoPm EXCEPT !.files = pm.files]
    /\ UNCHANGED <<FunctionList, Selected, gapDlg, rsDlg, run, ai>>

\* files that exist whatever the plugins' state
BaseFiles ==
    {Path("PluginManager", "__init__", ".py"), Path(Root, "README", ".md"),
     Path("common", "__init__", ".py")}

InitPluginManager ==
    /\ FunctionList = <<>>
    /\ Selected = 0
    /\ Form = "none"
    /\ gapDlg = NoGapDlg
    /\ rsDlg = NoRsDlg
    /\ shown = ""
    /\ run = NoRun
    /\ ai = NoAi
    /\ \E init \in SUBSET {Path("pkgA", "__init__", ".py"),
                           Path("pkgA", "__init__", ".pyc"),
                           Path("pkgA", "__init__", ".py.disabled")},
          helper \in {{}, {Path("pkgA", "helper", ".py")},
                      {Path("pkgA", "helper", ".py.disabled")}},
          foo \in SUBSET {Path(Root, "foo", ".py"),
                          Path(Root, "foo", ".py.disabled")} :
         pm = [NoPm EXCEPT !.files = BaseFiles \cup init \cup helper \cup foo]

NextPluginManager ==
    \/ ShowPluginManager
    \/ OnTreeClick
    \/ OnToggle
    \/ OnTreeDblClick
    \/ OnImport
    \/ PmClose

SpecPluginManager == InitPluginManager /\ [][NextPluginManager]_vars


\* C29: no sequence of Toggle clicks and double-clicks unmounts the Plugin
\* Manager: its __init__.py always exists and its item is always shown
\* mounted; a toggle on the item named PluginManager shows the refusal and
\* changes neither the files, nor the item's mounted flag, nor
\* changes_made.
C29_NeverUnmounted ==
    /\ Path("PluginManager", "__init__", ".py") \in pm.files
    /\ is_plugin_mounted(pm.files, Path(Root, "PluginManager", ""))
    /\ \A node \in 1..Len(pm.node_data) :
         pm.node_data[node].name = "PluginManager" => pm.node_data[node].mounted

C29_ToggleRefused ==
    [][(/\ OnToggle \/ OnTreeDblClick
        /\ pm.Selected # 0
        /\ pm.node_data[pm.Selected].name = "PluginManager")
         => /\ shown' = "Cannot unmount the Plugin Manager itself."
            /\ pm'.files = pm.files
            /\ pm'.node_data = pm.node_data
            /\ pm'.changes_made = pm.changes_made]_vars

C29_SelfProtection == []C29_NeverUnmounted /\ C29_ToggleRefused

\* the refusal is on screen after another plugin was unmounted
C29_Witness ==
    /\ Form = "pm"
    /\ shown = "Cannot unmount the Plugin Manager itself."
    /\ pm.Selected # 0
    /\ pm.node_data[pm.Selected].name = "PluginManager"
    /\ pm.changes_made
    /\ Path("pkgA", "__init__", ".py.disabled") \in pm.files


\* C30: after every toggle on a scanned plugin, successful or not, the
\* mounted flag of the item equals what is_plugin_mounted reports for its
\* path; and a successful unmount followed by a mount of the same item
\* restores the files as they were.
C30_FlagMatchesFilesystem ==
    [][(/\ OnToggle \/ OnTreeDblClick
        /\ pm.Selected # 0)
         => pm'.node_data[pm.Selected].mounted
              = is_plugin_mounted(pm'.files, pm.node_data[pm.Selected].path)]_vars

C30_UnmountMountRestores ==
    [][(/\ OnToggle \/ OnTreeDblClick
        /\ pm.Selected # 0
        /\ pm.node_data[pm.Selected].mounted
        /\ ~pm'.node_data[pm.Selected].mounted)
         => /\ toggle_node(pm', pm.Selected).pm.files = pm.files
            /\ toggle_node(pm', pm.Selected).pm.node_data[pm.Selected].mounted]_vars

C30_DisplayMatchesFilesystem ==
    C30_FlagMatchesFilesystem /\ C30_UnmountMountRestores

====
